---- MODULE Spec2Model ----
(***************************************************************************)
(* A state-machine model of the desktop generator: the annotation-driven   *)
(* layout generator (state.py), the compositor (renderer.py) and the       *)
(* sample emitters (tasks/iconlist_task.py, tasks/wait_loading.py, api.py, *)
(* workflow.py).                                                           *)
(*                                                                         *)
(* The random source is modelled by its outcomes: every rng call is a      *)
(* nondeterministic choice among the values the call can return.  For      *)
(* lists longer than MaxEnum the outcomes of shuffle and sample are        *)
(* restricted to a family of rotations and the reversal.                   *)
(***************************************************************************)
EXTENDS Integers, Sequences, FiniteSets, TLC

VARIABLES
    cfg,      \* the annotation config and asset set the process was started with
    pc,       \* position of the current call
    caller,   \* who called DesktopState.generate to build state
    state,    \* the DesktopState
    layout_style, \* the layout strategy _place_desktop_icons used for state
    entry,    \* the emission entry point that ran
    img,      \* the image DesktopRenderer.render composed
    metadata, \* the metadata DesktopRenderer.render returned
    samples,  \* the samples / test cases the entry point returned
    raised,   \* the exception the entry point raised, "" if none
    rerun,    \* state and samples of a second run of the entry point on the same inputs
    label_arg, \* the element_label generate_sample was called with, "" if None or empty
    saved,    \* whether the entry point has persisted its image with save_image
    _renderer,        \* api.py's module-level renderer: "None" or "DesktopRenderer"
    asset_loads,      \* how often DesktopRenderer.load_assets has run in this process
    base_image_loads, \* how often a render call has opened the base image file
    render_calls,     \* how many render calls have completed
    worker,           \* per thread: the call it is in, where it is, and its calls so far
    clock,            \* wall-clock time in seconds, as datetime.now() reads it
    volume,           \* the Modal volume: per dataset directory, the checkpoint file
    job,              \* the generate_dataset invocation and its current run
    placement_call,   \* one _place_desktop_icons / _place_taskbar_icons call: its
                      \* icon_ids / selected list and the placements it returned
    placing           \* _place_desktop_icons' random loop: its locals, draw by draw

\* the variables of one generate / render / emit call
pipeline == <<cfg, pc, caller, state, layout_style, entry, img, metadata, samples, raised, rerun, label_arg, saved>>
\* the variables of the renderer and its assets
assets == <<_renderer, asset_loads, base_image_loads, render_calls, worker>>
\* the variables of the Modal generation job
checkpointing == <<clock, volume, job>>
aux == <<assets, checkpointing, placing, placement_call>>
vars == <<pipeline, aux>>

(***************************************************************************)
(* Bounds of the model.                                                    *)
(***************************************************************************)
\* lists up to this length get every shuffle / sample outcome
MaxEnum == 3
\* number of desktop icons of the bulk catalog (one more than the sparse grid)
BulkDesktop == 49
\* number of taskbar icons of the bulk catalog
BulkTaskbar == 29
\* largest count hint a caller passes to generate
MaxHint == 60
\* calls one thread makes
MaxCalls == 2
\* seconds the clock runs
MaxClock == 4
\* checkpoint intervals in one dataset
MaxIntervals == 3

(***************************************************************************)
(* Program constants.                                                      *)
(***************************************************************************)
FRAME_W == 1920
FRAME_H == 1080
DESKTOP_ICON_PADDING == 20
DESKTOP_LABEL_HEIGHT == 20
TASKBAR_ICON_W == 27
TASKBAR_ICON_H == 28
TASKBAR_ICON_GAP == 8
TASKBAR_LEFT_MARGIN == 946
TASKBAR_Y_OFFSET == 1042
start_x == 20
start_y == 20
max_rows == 8
sparse_cols == 6
MAX_ATTEMPTS == 50
DESKTOP_BOTTOM == 1032
RANDOM_MARGIN_X == 100
RANDOM_MARGIN_Y == 50

\* DesktopScreen: the desktop icon area and the taskbar, (x, y, width, height)
desktop_area == <<0, 0, 1920, 1032>>
taskbar_area == <<0, 1032, 1920, 48>>

None == [none |-> TRUE]

(***************************************************************************)
(* Sequence helpers.                                                       *)
(***************************************************************************)
Min(a, b) == IF a < b THEN a ELSE b
Max(a, b) == IF a > b THEN a ELSE b
Abs(a) == IF a < 0 THEN -a ELSE a
Range(s) == {s[i] : i \in DOMAIN s}
Reverse(s) == [i \in 1..Len(s) |-> s[Len(s) + 1 - i]]
Rotate(s, r) == [i \in 1..Len(s) |-> s[((i - 1 + r) % Len(s)) + 1]]
Injections(k, n) == {f \in [1..k -> 1..n] : \A i, j \in 1..k : i # j => f[i] # f[j]}
\* every ordered choice of k distinct elements of s
Arrangements(s, k) == {[i \in 1..k |-> s[f[i]]] : f \in Injections(k, Len(s))}

(***************************************************************************)
(* Outcomes of the random source (random.Random): each operator is the set *)
(* of values one call can return.                                          *)
(***************************************************************************)
LongRotations == {0, 1, 6}
\* rng.randint(lo, hi)
RandintOutcomes(lo, hi) == IF hi - lo <= MaxEnum THEN lo..hi ELSE {lo, hi}
\* rng.sample(population, k): k distinct elements in selection order
SampleOutcomes(s, k) ==
    IF Len(s) <= MaxEnum THEN Arrangements(s, k)
    ELSE {SubSeq(s, 1, k), Reverse(SubSeq(s, Len(s) - k + 1, Len(s)))}
\* rng.shuffle(list): a permutation of the list
ShuffleOutcomes(s) ==
    IF Len(s) <= MaxEnum THEN Arrangements(s, Len(s))
    ELSE {Rotate(s, r % Len(s)) : r \in LongRotations} \cup {Reverse(s)}
\* rng.choice(list)
\* the desktop and the taskbar are placed by separate draws: the pairs explored are
\* those where one of the two is the first outcome of its set
JointOutcomes(A, B) ==
    ({CHOOSE a \in A : TRUE} \X B) \cup (A \X {CHOOSE b \in B : TRUE})
ChoiceOutcomes(s) == Range(s)

(***************************************************************************)
(* The annotation config (cudag AnnotationConfig, loaded by screen.py).    *)
(***************************************************************************)
Element(id, label, type, bbox, vary, rand, layout, tol, iw, ih) ==
    [element_id |-> id, label |-> label, element_type |-> type, bbox |-> bbox,
     vary_n |-> vary, random_order |-> rand, layout |-> layout,
     tolerance |-> tol, icon_width |-> iw, icon_height |-> ih]
AnnTask(action, target, template, type, wait) ==
    [action |-> action, target_element_id |-> target, prompt_template |-> template,
     task_type |-> type, wait_time |-> wait]
Icon(id, label, required) == [id |-> id, label |-> label, required |-> required]

\* AnnotationConfig.get_element_by_label: the first element with that label
get_element_by_label(c, label) ==
    IF \E i \in DOMAIN c.elements : c.elements[i].label = label
    THEN c.elements[CHOOSE i \in DOMAIN c.elements :
            /\ c.elements[i].label = label
            /\ \A j \in 1..(i - 1) : c.elements[j].label # label]
    ELSE None
\* AnnotationConfig.get_element: the element with that id
get_element(c, id) ==
    IF \E i \in DOMAIN c.elements : c.elements[i].element_id = id
    THEN c.elements[CHOOSE i \in DOMAIN c.elements :
            /\ c.elements[i].element_id = id
            /\ \A j \in 1..(i - 1) : c.elements[j].element_id # id]
    ELSE None

_FALLBACK_DESKTOP_ICONS ==
    << Icon("open_dental", "Open Dental", TRUE), Icon("pms", "PMS", TRUE),
       Icon("chrome", "Chrome", FALSE), Icon("edge", "Edge", FALSE) >>
_FALLBACK_TASKBAR_ICONS ==
    << Icon("explorer", "File Explorer", FALSE), Icon("edge", "Microsoft Edge", FALSE),
       Icon("od", "Open Dental", TRUE) >>

get_desktop_element(c) == IF ~c.ann THEN None ELSE get_element_by_label(c, "desktop")
get_taskbar_element(c) == IF ~c.ann THEN None ELSE get_element_by_label(c, "taskbar")

\* screen.get_desktop_icons: the desktop catalog, in dict order
get_desktop_icons(c) == IF ~c.ann THEN _FALLBACK_DESKTOP_ICONS ELSE c.desktop_icons

\* screen.get_taskbar_icons: the taskbar icons that have an icon file id, or the
\* fallback catalog when there is no config, no taskbar element or no such icon
get_taskbar_icons(c) ==
    IF ~c.ann THEN _FALLBACK_TASKBAR_ICONS
    ELSE IF get_element_by_label(c, "taskbar") = None THEN _FALLBACK_TASKBAR_ICONS
    ELSE LET withFile == SelectSeq(c.taskbar_icons, LAMBDA ic : ic.icon_file_id # "")
             result == [i \in DOMAIN withFile |->
                          Icon(withFile[i].icon_file_id, withFile[i].icon_file_id,
                               withFile[i].required)]
         IN IF result = <<>> THEN _FALLBACK_TASKBAR_ICONS ELSE result

\* screen.DESKTOP_ICON_SIZE
DESKTOP_ICON_SIZE(c) ==
    IF c.ann
    THEN LET el == get_desktop_element(c)
         IN IF el # None /\ el.icon_width # 0
            THEN <<el.icon_width, el.icon_height>> ELSE <<50, 50>>
    ELSE <<54, 54>>
\* variant: a cell narrower than the icon
DESKTOP_CELL_WIDTH_Narrow(c) == DESKTOP_ICON_SIZE(c)[1] \div 2
DESKTOP_CELL_WIDTH(c) == DESKTOP_ICON_SIZE(c)[1] + DESKTOP_ICON_PADDING
DESKTOP_CELL_HEIGHT(c) ==
    DESKTOP_ICON_SIZE(c)[2] + DESKTOP_LABEL_HEIGHT + DESKTOP_ICON_PADDING

\* dict.get(icon_id, {}) on a catalog
HasIcon(cat, id) == \E i \in DOMAIN cat : cat[i].id = id
IconInfo(cat, id) == cat[CHOOSE i \in DOMAIN cat : cat[i].id = id]
\* icons_info.get(icon_id, {}).get("label", icon_id)
LabelOf(cat, id) == IF HasIcon(cat, id) THEN IconInfo(cat, id).label ELSE id
\* icons_info.get(icon_id, {}).get("required", False)
RequiredOf(cat, id) == IF HasIcon(cat, id) THEN IconInfo(cat, id).required ELSE FALSE

(***************************************************************************)
(* state.py: IconPlacement and DesktopState.                               *)
(***************************************************************************)
IconPlacement(id, x, y, w, h, label) ==
    [icon_id |-> id, x |-> x, y |-> y, width |-> w, height |-> h, label |-> label]
\* variant: the top-left corner instead of the center
center_TopLeft(p) == <<p.x, p.y>>
center(p) == <<p.x + p.width \div 2, p.y + p.height \div 2>>
\* variant: x and y exchanged
bounds_Transposed(p) == <<p.y, p.x, p.width, p.height>>
bounds(p) == <<p.x, p.y, p.width, p.height>>

EmptyState ==
    [desktop_icons |-> <<>>, taskbar_icons |-> <<>>, datetime_text |-> <<>>,
     datetime_position |-> <<0, 0>>, od_loading_visible |-> FALSE]

\* draws of _generate_datetime: hour, minute, AM/PM, month, day, year
\* the clock is independent of the layout: one draw of (hour, minute, am_pm, month,
\* day, year) stands for all of them
DatetimeDraws == {<<12, 5, "AM", 2, 28, 2025>>}
\* the two lines of f"{hour}:{minute:02d} {am_pm}\n{month}/{day}/{year}"
_generate_datetime(d) == << <<d[1], d[2], d[3]>>, <<d[4], d[5], d[6]>> >>

_get_datetime_position_Centroid(c) ==
    IF ~c.ann THEN <<1868, 1043>>
    ELSE LET datetime_el == get_element_by_label(c, "datetime")
         IN IF datetime_el = None THEN <<1868, 1043>>
            ELSE <<datetime_el.bbox[1] + datetime_el.bbox[3] \div 2,
                   datetime_el.bbox[2] + datetime_el.bbox[4] \div 2>>
\* DesktopState._get_datetime_position: the fallback point, or the middle of the top
\* edge of the datetime element's bbox
_get_datetime_position(c) ==
    IF ~c.ann THEN <<1868, 1043>>
    ELSE LET datetime_el == get_element_by_label(c, "datetime")
         IN IF datetime_el = None THEN <<1868, 1043>>
            ELSE <<datetime_el.bbox[1] + datetime_el.bbox[3] \div 2, datetime_el.bbox[2]>>

RequiredIds(cat) ==
    LET r == SelectSeq(cat, LAMBDA ic : ic.required) IN [i \in DOMAIN r |-> r[i].id]
OptionalIds(cat) ==
    LET o == SelectSeq(cat, LAMBDA ic : ~ic.required) IN [i \in DOMAIN o |-> o[i].id]

\* the id lists "required + selected_optional" / "required + optional[:n]" can be
VaryNLists(required, optional, tenths) ==
    UNION {{required \o s : s \in SampleOutcomes(optional, k)} :
             k \in RandintOutcomes((Len(optional) * tenths) \div 10, Len(optional))}
FixedNList(required, optional, num_icons) ==
    required \o SubSeq(optional, 1, Min(Len(optional), Max(0, num_icons - Len(required))))

DesktopSelections_TaskbarFraction(c, num_icons) ==
    LET cat == get_desktop_icons(c)
        element == get_desktop_element(c)
        vary_n == IF element # None THEN element.vary_n ELSE TRUE
        random_order == IF element # None THEN element.random_order ELSE TRUE
        lists == IF vary_n THEN VaryNLists(RequiredIds(cat), OptionalIds(cat), 4)
                 ELSE {FixedNList(RequiredIds(cat), OptionalIds(cat), num_icons)}
    IN IF random_order THEN UNION {ShuffleOutcomes(l) : l \in lists} ELSE lists
\* _place_desktop_icons, selection: the icon_ids lists the rng can produce
DesktopSelections(c, num_icons) ==
    LET cat == get_desktop_icons(c)
        element == get_desktop_element(c)
        vary_n == IF element # None THEN element.vary_n ELSE TRUE
        random_order == IF element # None THEN element.random_order ELSE TRUE
        lists == IF vary_n THEN VaryNLists(RequiredIds(cat), OptionalIds(cat), 6)
                 ELSE {FixedNList(RequiredIds(cat), OptionalIds(cat), num_icons)}
    IN IF random_order THEN UNION {ShuffleOutcomes(l) : l \in lists} ELSE lists

\* _place_taskbar_icons, selection
TaskbarSelections(c, num_icons) ==
    LET cat == get_taskbar_icons(c)
        element == get_taskbar_element(c)
        vary_n == IF element # None THEN element.vary_n ELSE TRUE
        random_order == IF element # None THEN element.random_order ELSE TRUE
        lists == IF vary_n THEN VaryNLists(RequiredIds(cat), OptionalIds(cat), 4)
                 ELSE {FixedNList(RequiredIds(cat), OptionalIds(cat), num_icons)}
    IN IF random_order THEN UNION {ShuffleOutcomes(l) : l \in lists} ELSE lists

\* _place_desktop_icons, layout style: pinned by the annotation or rng.choice
LayoutStyles(c) ==
    LET element == get_desktop_element(c)
        layout == IF element # None THEN element.layout ELSE ""
    IN IF layout \in {"stacked", "sparse", "random"} THEN {layout}
       ELSE ChoiceOutcomes(<<"stacked", "sparse", "random">>)

\* stacked: tight grid, columns top to bottom
StackedPlacements(c, icon_ids) ==
    [i \in 1..Len(icon_ids) |->
        IconPlacement(icon_ids[i],
                      start_x + ((i - 1) \div max_rows) * DESKTOP_CELL_WIDTH(c),
                      start_y + ((i - 1) % max_rows) * DESKTOP_CELL_HEIGHT(c),
                      DESKTOP_ICON_SIZE(c)[1], DESKTOP_ICON_SIZE(c)[2],
                      LabelOf(get_desktop_icons(c), icon_ids[i]))]

\* sparse: the grid cells (col, row), column by column
cell_positions ==
    [i \in 1..(sparse_cols * max_rows) |-> <<(i - 1) \div max_rows, (i - 1) % max_rows>>]
\* selected_cells.sort(key=lambda c: (c[0], c[1])): the cells are distinct grid cells,
\* so the sorted list is the grid, which is in (col, row) order, without the other cells
SortCells(cells) == SelectSeq(cell_positions, LAMBDA cell : cell \in Range(cells))
\* sparse: shuffled cells, the first len(icon_ids) of them sorted, zipped with the ids
SparsePlacements(c, icon_ids, shuffled) ==
    LET selected_cells == SortCells(SubSeq(shuffled, 1, Min(Len(shuffled), Len(icon_ids))))
    IN [i \in 1..Min(Len(selected_cells), Len(icon_ids)) |->
          IconPlacement(icon_ids[i],
                        start_x + (selected_cells[i][1] * DESKTOP_CELL_WIDTH(c) * 3) \div 2,
                        start_y + selected_cells[i][2] * DESKTOP_CELL_HEIGHT(c),
                        DESKTOP_ICON_SIZE(c)[1], DESKTOP_ICON_SIZE(c)[2],
                        LabelOf(get_desktop_icons(c), icon_ids[i]))]

\* random: bounds of the drawn positions, and the overlap test on used_positions
max_x(c) == FRAME_W - DESKTOP_CELL_WIDTH(c) - RANDOM_MARGIN_X
max_y(c) == DESKTOP_BOTTOM - DESKTOP_CELL_HEIGHT(c) - RANDOM_MARGIN_Y
overlaps_OffByOne(c, x, y, used_positions) ==
    \E i \in DOMAIN used_positions :
        /\ Abs(x - used_positions[i][1]) < DESKTOP_CELL_WIDTH(c) - 1
        /\ Abs(y - used_positions[i][2]) < DESKTOP_CELL_HEIGHT(c) - 1
overlaps(c, x, y, used_positions) ==
    \E i \in DOMAIN used_positions :
        /\ Abs(x - used_positions[i][1]) < DESKTOP_CELL_WIDTH(c)
        /\ Abs(y - used_positions[i][2]) < DESKTOP_CELL_HEIGHT(c)
\* the positions (rng.randint(start_x, max_x), rng.randint(start_y, max_y)) one attempt
\* can draw
PositionDraws(c) ==
    { <<start_x, start_y>>,
      <<start_x + DESKTOP_CELL_WIDTH(c) - 1, start_y + DESKTOP_CELL_HEIGHT(c) - 1>>,
      <<max_x(c), max_y(c)>> }

\* _place_taskbar_icons, placement: left to right at the taskbar offset
TaskbarPlacements(selected) ==
    [i \in 1..Len(selected) |->
        IconPlacement(selected[i],
                      TASKBAR_LEFT_MARGIN + (i - 1) * (TASKBAR_ICON_W + TASKBAR_ICON_GAP),
                      TASKBAR_Y_OFFSET, TASKBAR_ICON_W, TASKBAR_ICON_H, "")]

(***************************************************************************)
(* The configurations the process can be started with.                     *)
(***************************************************************************)
BulkIds == <<
    "bulk01", "bulk02", "bulk03", "bulk04", "bulk05", "bulk06", "bulk07", "bulk08", "bulk09", "bulk10",
    "bulk11", "bulk12", "bulk13", "bulk14", "bulk15", "bulk16", "bulk17", "bulk18", "bulk19", "bulk20",
    "bulk21", "bulk22", "bulk23", "bulk24", "bulk25", "bulk26", "bulk27", "bulk28", "bulk29", "bulk30",
    "bulk31", "bulk32", "bulk33", "bulk34", "bulk35", "bulk36", "bulk37", "bulk38", "bulk39", "bulk40",
    "bulk41", "bulk42", "bulk43", "bulk44", "bulk45", "bulk46", "bulk47", "bulk48", "bulk49", "bulk50",
    "bulk51", "bulk52", "bulk53", "bulk54", "bulk55", "bulk56", "bulk57", "bulk58", "bulk59", "bulk60" >>

DCatEmpty == <<>>
DCatSmall ==
    << Icon("open_dental", "Open Dental", TRUE), Icon("google_chrome", "Google Chrome", FALSE),
       Icon("recycle_bin", "Recycle Bin", FALSE) >>
DCatOd == << Icon("od", "OD", TRUE), Icon("google_chrome", "Google Chrome", FALSE) >>
DCatBulk == [i \in 1..BulkDesktop |-> Icon(BulkIds[i], BulkIds[i], i = 1)]

TbIcon(file_id, required) == [icon_file_id |-> file_id, required |-> required]
TCatSmall == << TbIcon("explorer", FALSE), TbIcon("od", TRUE), TbIcon("", FALSE) >>
TCatEmpty == <<>>
TCatNoFile == << TbIcon("", TRUE) >>
TCatBulk == [i \in 1..BulkTaskbar |-> TbIcon(BulkIds[i], i = 1)]

\* icon bitmaps on disk, by (directory, extracted icon id)
FullCache ==
    { <<"desktop", "od">>, <<"desktop", "pms">>, <<"desktop", "chrome">>,
      <<"desktop", "edge">>, <<"desktop", "trash">>,
      <<"taskbar", "od">>, <<"taskbar", "explorer">>, <<"taskbar", "edge">> }
    \cup {<<"desktop", BulkIds[i]>> : i \in DOMAIN BulkIds}
    \cup {<<"taskbar", BulkIds[i]>> : i \in DOMAIN BulkIds}
PartialCache == FullCache \ { <<"desktop", "trash">>, <<"taskbar", "explorer">> }
\* a bitmap named open_dental next to the aliased od, none for recycle_bin / trash
DirectCache == PartialCache \cup { <<"desktop", "open_dental">> }

DesktopBBoxes == { <<0, 0, 1914, 1032>>, <<6, 4, 1900, 1020>> }
DesktopEl(vary, rand, layout, bbox, iw, ih) ==
    Element("el_desktop", "desktop", "iconlist", bbox, vary, rand, layout, <<30, 25>>, iw, ih)
TaskbarEl(vary, rand) ==
    Element("el_taskbar", "taskbar", "iconlist", <<0, 1032, 1920, 48>>, vary, rand,
            "stacked", <<15, 15>>, 0, 0)
LoadingEl ==
    Element("el_loading", "od_loading", "loading", <<708, 365, 502, 304>>, FALSE, FALSE,
            "", <<0, 0>>, 0, 0)
\* a labelled landmark region
LandmarkEl ==
    Element("el_landmark", "landmark", "region", <<100, 100, 200, 50>>, FALSE, FALSE,
            "", <<0, 0>>, 0, 0)
DatetimeEl ==
    Element("el_datetime", "datetime", "text", <<1840, 1050, 80, 30>>, FALSE, FALSE,
            "", <<0, 0>>, 0, 0)

DoubleClickDesktop ==
    AnnTask("double_click", "el_desktop", <<"Double-click the", "[icon_label]", "icon">>,
            "click-desktop-icon", 0)
LeftClickDesktop ==
    AnnTask("left_click", "el_desktop", <<"Open", "[icon_label]">>, "open-desktop-icon", 0)
LeftClickTaskbar ==
    AnnTask("left_click", "el_taskbar", <<"Click", "[icon_label]", "in the taskbar">>,
            "click-taskbar-icon", 0)
LeftClickGone ==
    AnnTask("left_click", "el_gone", <<"Click", "[icon_label]">>, "click-gone", 0)
WaitTask(seconds) ==
    AnnTask("wait", "el_loading", <<"Wait for the application to load">>, "wait-loading",
            seconds)
GroundingAnnTask ==
    AnnTask("grounding", "el_desktop", <<"Locate", "[icon_label]">>, "grounding", 0)

TasksStandard == << DoubleClickDesktop, LeftClickTaskbar, WaitTask(2), GroundingAnnTask >>
TasksTwoClicks == << LeftClickDesktop, WaitTask(0), DoubleClickDesktop, LeftClickGone >>
TasksNoWait == << LeftClickTaskbar, LeftClickDesktop >>

AnnCfg(elements, tasks, desktop_icons, taskbar_icons, cache) ==
    [ann |-> TRUE, elements |-> elements, tasks |-> tasks,
     desktop_icons |-> desktop_icons, taskbar_icons |-> taskbar_icons, cache |-> cache]
\* ANNOTATION_CONFIG is None: the annotations directory does not exist
NoAnnotationCfg ==
    [ann |-> FALSE, elements |-> <<>>, tasks |-> <<>>, desktop_icons |-> <<>>,
     taskbar_icons |-> <<>>, cache |-> FullCache]

\* the desktop settings vary, everything else is the standard annotation
LayoutCfg(vary, rand, layout, size, cat) ==
    AnnCfg(<<DesktopEl(vary, rand, layout, <<0, 0, 1914, 1032>>, size[1], size[2]),
             TaskbarEl(FALSE, FALSE), LoadingEl, DatetimeEl>>,
           TasksStandard, cat, TCatSmall, FullCache)
LayoutCfgs ==
    { LayoutCfg(vary, rand, layout, size, cat) :
        vary \in BOOLEAN, rand \in BOOLEAN, layout \in {"stacked", "sparse"},
        size \in {<<0, 0>>, <<48, 64>>}, cat \in {DCatEmpty, DCatSmall} }
    \cup { LayoutCfg(both, both, layout, size, cat) :
        both \in BOOLEAN, layout \in {"", "random"},
        size \in {<<0, 0>>, <<48, 64>>}, cat \in {DCatEmpty, DCatSmall} }
\* a catalog larger than the sparse grid, laid out on a grid
BulkDesktopCfgs ==
    { AnnCfg(<<DesktopEl(vary, rand, layout, <<0, 0, 1914, 1032>>, 0, 0),
               TaskbarEl(FALSE, FALSE), LoadingEl, DatetimeEl>>,
             TasksStandard, DCatBulk, TCatSmall, FullCache) :
        vary \in BOOLEAN, rand \in BOOLEAN, layout \in {"stacked", "sparse"} }
\* the taskbar settings vary
TaskbarCfgs ==
    { AnnCfg(<<DesktopEl(FALSE, FALSE, "stacked", <<0, 0, 1914, 1032>>, 0, 0)>> \o tb
               \o <<LoadingEl>>,
             TasksStandard, DCatSmall, cat, FullCache) :
        tb \in {<<>>} \cup {<<TaskbarEl(vary, rand)>> : vary \in BOOLEAN, rand \in BOOLEAN},
        cat \in {TCatSmall, TCatNoFile, TCatBulk} }
\* the tasks, the crop region and the asset set vary
TaskCfgs ==
    { AnnCfg(<<DesktopEl(FALSE, TRUE, "sparse", bbox, 0, 0), TaskbarEl(FALSE, FALSE)>> \o le,
             tasks, DCatSmall, TCatSmall, cache) :
        bbox \in DesktopBBoxes, tasks \in {TasksStandard, TasksTwoClicks, TasksNoWait},
        cache \in {FullCache, PartialCache}, le \in {<<>>, <<LoadingEl>>} }
\* the desktop catalog is empty, or has an icon labelled OD
DesktopCatalogCfgs ==
    { AnnCfg(<<DesktopEl(FALSE, FALSE, "stacked", <<0, 0, 1914, 1032>>, 0, 0),
               TaskbarEl(FALSE, FALSE), LoadingEl>>,
             TasksStandard, cat, TCatSmall, FullCache) : cat \in {DCatEmpty, DCatOd} }
\* both catalogs of the annotation are empty
EmptyCatalogCfgs ==
    { AnnCfg(<<DesktopEl(vary, vary, layout, <<0, 0, 1914, 1032>>, 0, 0),
               TaskbarEl(vary, rand)>>,
             TasksStandard, DCatEmpty, TCatEmpty, FullCache) :
        vary \in BOOLEAN, rand \in BOOLEAN, layout \in {"stacked", "sparse", "random"} }
\* the annotation has a landmark region
LandmarkCfgs ==
    { AnnCfg(<<DesktopEl(FALSE, FALSE, "stacked", <<0, 0, 1914, 1032>>, 0, 0),
               TaskbarEl(FALSE, FALSE), LandmarkEl>>,
             TasksStandard, DCatSmall, TCatSmall, FullCache) }
\* no desktop element at all
NoDesktopCfgs ==
    { AnnCfg(<<TaskbarEl(TRUE, TRUE)>>, TasksStandard, DCatEmpty, TCatSmall, FullCache) }

Configs ==
    {NoAnnotationCfg} \cup LayoutCfgs \cup BulkDesktopCfgs \cup TaskbarCfgs \cup TaskCfgs
    \cup NoDesktopCfgs \cup EmptyCatalogCfgs

\* the sequences of positions the attempts of one icon can draw: m times p, then q
TrySwitch == {1, MAX_ATTEMPTS - 1}
TrySequences(c) ==
    {[p |-> p, q |-> p, m |-> MAX_ATTEMPTS] : p \in PositionDraws(c)}
    \cup {[p |-> pq[1], q |-> pq[2], m |-> m] :
            pq \in {d \in PositionDraws(c) \X PositionDraws(c) : d[1] # d[2]},
            m \in TrySwitch}
\* "for _ in range(50)": the position the loop ends with and the draws it consumed
RECURSIVE TryLoop(_, _, _, _)
TryLoop(c, used_positions, tries, i) ==
    LET xy == IF i <= tries.m THEN tries.p ELSE tries.q
    IN IF ~overlaps(c, xy[1], xy[2], used_positions) \/ i = MAX_ATTEMPTS
       THEN [pos |-> xy, n |-> i]
       ELSE TryLoop(c, used_positions, tries, i + 1)
\* random: every (used_positions, draws consumed) the loop can end with after n icons;
\* the draws do not depend on the icon ids
RECURSIVE RandomPositions(_, _)
RandomPositions(c, n) ==
    IF n = 0 THEN {[used |-> <<>>, consumed |-> <<>>]}
    ELSE UNION {
           {[used |-> Append(b.used, r.pos), consumed |-> Append(b.consumed, r.n)] :
              r \in {TryLoop(c, b.used, t, 1) : t \in TrySequences(c)}} :
           b \in RandomPositions(c, n - 1)}
\* random: the placements appended for icon_ids at the positions the loop ended with
RandomPlacements(c, icon_ids, used) ==
    [i \in 1..Len(icon_ids) |->
        IconPlacement(icon_ids[i], used[i][1], used[i][2],
                      DESKTOP_ICON_SIZE(c)[1], DESKTOP_ICON_SIZE(c)[2],
                      LabelOf(get_desktop_icons(c), icon_ids[i]))]

\* _place_desktop_icons, placement: every (layout_style, placement list) it can end
\* with for icon_ids; drawn are the used_positions the random loop can end with
DesktopPlacementsOf(c, icon_ids, drawn) ==
    UNION {
      {[style |-> style, placements |-> placements] :
         placements \in
           CASE style = "stacked" -> {StackedPlacements(c, icon_ids)}
             [] style = "sparse" ->
                  {SparsePlacements(c, icon_ids, shuffled) :
                     shuffled \in ShuffleOutcomes(cell_positions)}
             [] OTHER ->
                  {RandomPlacements(c, icon_ids, SubSeq(used, 1, Len(icon_ids))) :
                     used \in drawn}} :
      style \in LayoutStyles(c)}
\* _place_desktop_icons: every (layout_style, placement list) it can end with
DesktopLayouts(c, num_icons) ==
    LET selections == DesktopSelections(c, num_icons)
        longest == CHOOSE n \in {Len(s) : s \in selections} :
                      \A s \in selections : Len(s) <= n
        drawn == {r.used : r \in RandomPositions(c, longest)}
    IN UNION {DesktopPlacementsOf(c, icon_ids, drawn) : icon_ids \in selections}

\* _place_taskbar_icons: every placement list it can return
TaskbarLayouts(c, num_icons) ==
    {TaskbarPlacements(selected) : selected \in TaskbarSelections(c, num_icons)}

(***************************************************************************)
(* Callers of DesktopState.generate and the arguments they pass:           *)
(* (num_desktop_icons, num_taskbar_icons, od_loading_visible).             *)
(***************************************************************************)
\* AnnotationConfig.get_wait_task: the first task whose action is "wait"
HasWaitTask(c) == \E i \in DOMAIN c.tasks : c.tasks[i].action = "wait"
get_wait_task(c) ==
    c.tasks[CHOOSE i \in DOMAIN c.tasks :
              /\ c.tasks[i].action = "wait"
              /\ \A j \in 1..(i - 1) : c.tasks[j].action # "wait"]
\* WaitLoadingTask: the first double_click task that targets the desktop element
IsDesktopDoubleClick(c, task) ==
    /\ task.action = "double_click"
    /\ get_element(c, task.target_element_id) # None
    /\ get_element(c, task.target_element_id).label = "desktop"
HasClickTask(c) == \E i \in DOMAIN c.tasks : IsDesktopDoubleClick(c, c.tasks[i])
click_task_WaitTemplate(c) == get_wait_task(c)
click_task(c) ==
    c.tasks[CHOOSE i \in DOMAIN c.tasks :
              /\ IsDesktopDoubleClick(c, c.tasks[i])
              /\ \A j \in 1..(i - 1) : ~IsDesktopDoubleClick(c, c.tasks[j])]

\* IconListTask.generate_samples / generate_tests get past their early returns
IconListTaskRuns(c) == c.ann /\ get_element_by_label(c, "desktop") # None
\* WaitLoadingTask.generate_samples gets past its early returns
WaitLoadingTaskRuns(c) ==
    /\ c.ann
    /\ HasWaitTask(c)
    /\ get_element_by_label(c, "desktop") # None
    /\ HasClickTask(c)

GenerateCallers(c) ==
    {"render_desktop_click_taskbar_od", "render_desktop_click_od", "generate_sample",
     "caller", "GroundingTask", "ClickDesktopIconTask"}
    \cup (IF IconListTaskRuns(c) THEN {"IconListTask"} ELSE {})
    \cup (IF WaitLoadingTaskRuns(c) THEN {"WaitLoadingTask"} ELSE {})

ApiTaskTypes == {"iconlist", "wait-loading", "grounding", "bogus"}
GenerateArgs(who) ==
    CASE who = "IconListTask" -> {<<n, 0, FALSE>> : n \in RandintOutcomes(3, 7)}
      [] who = "WaitLoadingTask" -> {<<n, 0, TRUE>> : n \in RandintOutcomes(3, 7)}
      [] who = "render_desktop_click_taskbar_od" -> {<<4, 3, FALSE>>}
      [] who = "render_desktop_click_od" -> {<<5, 2, FALSE>>}
      [] who = "generate_sample" -> {<<5, 3, t = "wait-loading">> : t \in ApiTaskTypes}
      [] who = "GroundingTask" -> {<<5, 3, FALSE>>}
      [] who = "ClickDesktopIconTask" ->
            {<<n, m, FALSE>> : n \in RandintOutcomes(3, 7), m \in RandintOutcomes(1, 3)}
      [] OTHER -> {<<n, n, l>> : n \in {0, MaxHint}, l \in BOOLEAN}

(***************************************************************************)
(* renderer.py: DesktopRenderer.                                           *)
(***************************************************************************)
_ICON_ALIASES ==
    { <<"open_dental", "od">>, <<"google_chrome", "chrome">>, <<"microsoft_edge", "edge">>,
      <<"recycle_bin", "trash">>, <<"acrobat_reader", "acrobat">>, <<"od_zapata", "od">>,
      <<"office_shsre", "office">>, <<"brother_iprint", "brother">>,
      <<"brother_utilities", "brother">>, <<"brother_creative", "brother">>,
      <<"pms_dental", "pms">>, <<"file_explorer", "explorer">> }
_resolve_icon_key_AliasFirst(c, prefix, icon_id) ==
    IF \E al \in _ICON_ALIASES : al[1] = icon_id /\ <<prefix, al[2]>> \in c.cache
    THEN <<prefix, (CHOOSE al \in _ICON_ALIASES : al[1] = icon_id)[2]>>
    ELSE IF <<prefix, icon_id>> \in c.cache THEN <<prefix, icon_id>>
         ELSE None
\* _resolve_icon_key: the cache key of the icon, directly or through its alias, or None
_resolve_icon_key(c, prefix, icon_id) ==
    IF <<prefix, icon_id>> \in c.cache THEN <<prefix, icon_id>>
    ELSE IF \E al \in _ICON_ALIASES : al[1] = icon_id /\ <<prefix, al[2]>> \in c.cache
         THEN <<prefix, (CHOOSE al \in _ICON_ALIASES : al[1] = icon_id)[2]>>
         ELSE None
\* _load_loading_panel_from_annotation: is there a panel bitmap to paste
_loading_panel(c) ==
    /\ c.ann
    /\ \/ \E i \in DOMAIN c.elements : c.elements[i].element_type = "loading"
       \/ <<"panels", "od-loading">> \in c.cache
\* what _draw_desktop_icon / _draw_taskbar_icon paste: nothing when the key is None
Pasted(c, prefix, icons) ==
    LET drawn == SelectSeq(icons, LAMBDA icon : _resolve_icon_key(c, prefix, icon.icon_id) # None)
    IN [i \in DOMAIN drawn |->
          [key |-> _resolve_icon_key(c, prefix, drawn[i].icon_id),
           icon_id |-> drawn[i].icon_id, at |-> <<drawn[i].x, drawn[i].y>>]]
\* DesktopState.to_ground_truth
to_ground_truth(st) ==
    [desktop_icons |->
        [i \in DOMAIN st.desktop_icons |->
            [id |-> st.desktop_icons[i].icon_id, label |-> st.desktop_icons[i].label,
             bounds |-> bounds(st.desktop_icons[i]), center |-> center(st.desktop_icons[i])]],
     taskbar_icons |->
        [i \in DOMAIN st.taskbar_icons |->
            [id |-> st.taskbar_icons[i].icon_id,
             bounds |-> bounds(st.taskbar_icons[i]), center |-> center(st.taskbar_icons[i])]],
     datetime |-> [text |-> st.datetime_text, position |-> st.datetime_position],
     od_loading_visible |-> st.od_loading_visible]
\* DesktopRenderer.render: the layers it paints, in the order of its statements; an
\* icon without a cache key and a panel that was not loaded paint nothing
DrawOrder(c, st) ==
    <<"base">>
    \o [i \in DOMAIN Pasted(c, "desktop", st.desktop_icons) |-> "desktop_icon"]
    \o [i \in DOMAIN Pasted(c, "taskbar", st.taskbar_icons) |-> "taskbar_icon"]
    \o (IF st.datetime_text # <<>> THEN <<"datetime">> ELSE <<>>)
    \o (IF st.od_loading_visible /\ _loading_panel(c) THEN <<"loading_panel">> ELSE <<>>)
\* DesktopRenderer.render: the composed image and the metadata
render(c, st) ==
    [image |-> [size |-> <<FRAME_W, FRAME_H>>,
                layers |-> DrawOrder(c, st),
                desktop |-> Pasted(c, "desktop", st.desktop_icons),
                taskbar |-> Pasted(c, "taskbar", st.taskbar_icons),
                datetime |-> [text |-> st.datetime_text, at |-> st.datetime_position],
                loading_panel |-> st.od_loading_visible /\ _loading_panel(c)],
     metadata |-> [ground_truth |-> to_ground_truth(st)]]
NoImage ==
    [size |-> <<0, 0>>, layers |-> <<>>, desktop |-> <<>>, taskbar |-> <<>>,
     datetime |-> [text |-> <<>>, at |-> <<0, 0>>], loading_panel |-> FALSE]
NoMetadata == [ground_truth |-> to_ground_truth(EmptyState)]

(***************************************************************************)
(* Samples: one record shape for TaskSample, TestCase, GeneratedSample and *)
(* WorkflowScreenResult.                                                   *)
(***************************************************************************)
NoCoord == <<>>
Sample(kind, id, task_type, prompt, action, coordinate, duration, pixel_coords, tolerance, image_size, crop_region, element_label, icon_id, icon_label) ==
    [kind |-> kind, id |-> id, task_type |-> task_type, prompt |-> prompt,
     action |-> action, coordinate |-> coordinate, duration |-> duration, bbox_2d |-> <<>>,
     pixel_coords |-> pixel_coords, tolerance |-> tolerance, image_size |-> image_size,
     crop_region |-> crop_region, element_label |-> element_label,
     icon_id |-> icon_id, icon_label |-> icon_label]
\* self.build_id(ctx, f"{infix}{icon_id}") within one call, i.e. for one ctx: the id is
\* made of the task's type and the suffix the call site passes
build_id(task_type, infix, icon_id) == <<task_type, infix, icon_id>>
\* prompt_template.replace("[icon_label]", label)
Replace(template, label) ==
    [i \in DOMAIN template |-> IF template[i] = "[icon_label]" THEN label ELSE template[i]]
\* flatten a sequence of sequences (the nested for loops append in this order)
RECURSIVE Flatten(_)
Flatten(ss) == IF ss = <<>> THEN <<>> ELSE Head(ss) \o Flatten(Tail(ss))
\* variant: rounds up instead of truncating
ToRU_Ceil(coord, dimension) == (coord * 1000 + dimension - 1) \div dimension
\* int((coord / dimension) * 1000)
ToRU(coord, dimension) == (coord * 1000) \div dimension

(***************************************************************************)
(* tasks/iconlist_task.py: IconListTask.                                   *)
(***************************************************************************)
\* cudag make_tool_call(action, coords): the action with the pixel coordinate
make_tool_call(action, coords) == [action |-> action, coordinate |-> coords]
\* variant: no action is skipped
TargetsDesktop_AnyAction(c, task) ==
    /\ get_element(c, task.target_element_id) # None
    /\ get_element(c, task.target_element_id).label = "desktop"
\* the tasks the loop "for task in config.tasks" does not skip
TargetsDesktop(c, task) ==
    /\ ~(task.action \in {"wait", "grounding"})
    /\ get_element(c, task.target_element_id) # None
    /\ get_element(c, task.target_element_id).label = "desktop"
\* IconListTask.generate_samples, after generate_state
IconListTask_generate_samples(c, st) ==
    LET desktop_element == get_element_by_label(c, "desktop")
        bbox == desktop_element.bbox
        crop_x == bbox[1]
        crop_y == bbox[2]
        icons_info == get_desktop_icons(c)
        tasks == SelectSeq(c.tasks, LAMBDA task : TargetsDesktop(c, task))
        one(task, icon) ==
            LET label == LabelOf(icons_info, icon.icon_id)
                rel_x == center(icon)[1] - crop_x
                rel_y == center(icon)[2] - crop_y
                tool_call == make_tool_call(task.action, <<rel_x, rel_y>>)
            IN Sample("sample", build_id("iconlist", "_desktop_", icon.icon_id), task.task_type,
                      Replace(task.prompt_template, label), tool_call.action,
                      tool_call.coordinate, 0, <<rel_x, rel_y>>, desktop_element.tolerance,
                      <<bbox[3], bbox[4]>>, bbox, "desktop", icon.icon_id, label)
    IN Flatten([t \in DOMAIN tasks |->
                  [i \in DOMAIN st.desktop_icons |-> one(tasks[t], st.desktop_icons[i])]])
\* variant: the test cases keep the full-frame icon centers (no crop offset subtracted)
IconListTask_generate_tests_FullFrame(c, st) ==
    LET bbox == get_element_by_label(c, "desktop").bbox
        train == SelectSeq(IconListTask_generate_samples(c, st),
                           LAMBDA s : RequiredOf(get_desktop_icons(c), s.icon_id))
    IN [i \in DOMAIN train |->
          [train[i] EXCEPT !.kind = "test", !.id = <<"test", "_desktop_", train[i].icon_id>>,
                           !.coordinate = <<@[1] + bbox[1], @[2] + bbox[2]>>,
                           !.pixel_coords = <<@[1] + bbox[1], @[2] + bbox[2]>>]]
\* IconListTask.generate_tests, after generate_state: required icons only
IconListTask_generate_tests(c, st) ==
    LET desktop_element == get_element_by_label(c, "desktop")
        bbox == desktop_element.bbox
        crop_x == bbox[1]
        crop_y == bbox[2]
        icons_info == get_desktop_icons(c)
        tasks == SelectSeq(c.tasks, LAMBDA task : TargetsDesktop(c, task))
        tested == SelectSeq(st.desktop_icons,
                            LAMBDA icon : RequiredOf(icons_info, icon.icon_id))
        one(task, icon) ==
            LET label == LabelOf(icons_info, icon.icon_id)
                rel_x == center(icon)[1] - crop_x
                rel_y == center(icon)[2] - crop_y
                tool_call == make_tool_call(task.action, <<rel_x, rel_y>>)
            IN Sample("test", <<"test", "_desktop_", icon.icon_id>>, task.task_type,
                      Replace(task.prompt_template, label), tool_call.action,
                      tool_call.coordinate, 0, <<rel_x, rel_y>>, desktop_element.tolerance,
                      <<bbox[3], bbox[4]>>, bbox, "desktop", icon.icon_id, label)
    IN Flatten([t \in DOMAIN tasks |-> [i \in DOMAIN tested |-> one(tasks[t], tested[i])]])

(***************************************************************************)
(* tasks/wait_loading.py: WaitLoadingTask.                                 *)
(***************************************************************************)
\* wait_task.wait_time if wait_task.wait_time > 0 else 3.0
wait_time(c) == IF get_wait_task(c).wait_time > 0 THEN get_wait_task(c).wait_time ELSE 3
\* WaitLoadingTask.generate_samples, after DesktopState.generate
WaitLoadingTask_generate_samples(c, st) ==
    LET bbox == get_element_by_label(c, "desktop").bbox
        desktop_icons == get_desktop_icons(c)
        one(icon) ==
            LET label == LabelOf(desktop_icons, icon.icon_id)
            IN Sample("sample", build_id("wait-loading", "_wait_", icon.icon_id),
                      get_wait_task(c).task_type,
                      Replace(click_task(c).prompt_template, label), "wait", NoCoord,
                      wait_time(c), <<0, 0>>, <<0, 0>>, <<bbox[3], bbox[4]>>, bbox,
                      "desktop", icon.icon_id, label)
    IN [i \in DOMAIN st.desktop_icons |-> one(st.desktop_icons[i])]
\* WaitLoadingTask.generate_tests, after DesktopState.generate: required icons only
WaitLoadingTask_generate_tests(c, st) ==
    LET bbox == get_element_by_label(c, "desktop").bbox
        desktop_icons == get_desktop_icons(c)
        tested == SelectSeq(st.desktop_icons,
                            LAMBDA icon : RequiredOf(desktop_icons, icon.icon_id))
        one(icon) ==
            LET label == LabelOf(desktop_icons, icon.icon_id)
            IN Sample("test", <<"test", "_wait_", icon.icon_id>>,
                      get_wait_task(c).task_type,
                      Replace(click_task(c).prompt_template, label), "wait", NoCoord,
                      wait_time(c), <<0, 0>>, <<0, 0>>, <<bbox[3], bbox[4]>>, bbox,
                      "desktop", icon.icon_id, label)
    IN [i \in DOMAIN tested |-> one(tested[i])]

(***************************************************************************)
(* api.py: generate_sample and its helpers.                                *)
(***************************************************************************)
\* _generate_iconlist_samples
_generate_iconlist_samples(c, st, image) ==
    IF ~c.ann THEN <<>>
    ELSE LET elements == SelectSeq(c.elements,
                 LAMBDA element : /\ element.element_type = "iconlist"
                                  /\ element.label \in {"desktop", "taskbar"})
             icons_in_state(element) ==
                 IF element.label = "desktop" THEN st.desktop_icons ELSE st.taskbar_icons
             icons_info(element) ==
                 IF element.label = "desktop" THEN get_desktop_icons(c)
                 ELSE get_taskbar_icons(c)
             tasks(element) ==
                 SelectSeq(c.tasks,
                     LAMBDA ann_task : /\ ann_task.target_element_id = element.element_id
                                       /\ ann_task.action = "left_click")
             one(element, ann_task, icon) ==
                 LET label == LabelOf(icons_info(element), icon.icon_id)
                     ru_x == ToRU(center(icon)[1], image.size[1])
                     ru_y == ToRU(center(icon)[2], image.size[2])
                 IN Sample("generated", <<>>, ann_task.task_type,
                           Replace(ann_task.prompt_template, label), "left_click",
                           <<ru_x, ru_y>>, 0, center(icon), <<30, 30>>, image.size, <<>>,
                           element.label, icon.icon_id, label)
         IN Flatten([e \in DOMAIN elements |->
               Flatten([t \in DOMAIN tasks(elements[e]) |->
                  [i \in DOMAIN icons_in_state(elements[e]) |->
                     one(elements[e], tasks(elements[e])[t],
                         icons_in_state(elements[e])[i])]])])
\* _generate_wait_samples
_generate_wait_samples(c, st, image) ==
    IF ~c.ann THEN <<>>
    ELSE IF ~HasWaitTask(c) THEN <<>>
    ELSE LET tasks == SelectSeq(c.tasks,
                 LAMBDA task : /\ task.action # "wait"
                               /\ get_element(c, task.target_element_id) # None
                               /\ get_element(c, task.target_element_id).element_type
                                     = "iconlist"
                               /\ get_element(c, task.target_element_id).label
                                     \in {"desktop", "taskbar"})
             element(task) == get_element(c, task.target_element_id)
             icons_in_state(task) ==
                 IF element(task).label = "desktop" THEN st.desktop_icons
                 ELSE st.taskbar_icons
             icons_info(task) ==
                 IF element(task).label = "desktop" THEN get_desktop_icons(c)
                 ELSE get_taskbar_icons(c)
             one(task, icon) ==
                 LET label == LabelOf(icons_info(task), icon.icon_id)
                 IN Sample("generated", <<>>, get_wait_task(c).task_type,
                           Replace(task.prompt_template, label), "wait", NoCoord,
                           wait_time(c), <<0, 0>>, <<0, 0>>, image.size, <<>>,
                           element(task).label, icon.icon_id, label)
         IN Flatten([t \in DOMAIN tasks |->
               [i \in DOMAIN icons_in_state(tasks[t]) |->
                  one(tasks[t], icons_in_state(tasks[t])[i])]])
\* screen.get_all_groundable_elements: (label, bbox) of the labelled elements; the
\* annotation is at generator size, so scale_bbox leaves the bbox as it is
get_all_groundable_elements(c) ==
    IF ~c.ann THEN <<>>
    ELSE LET labelled == SelectSeq(c.elements, LAMBDA el : el.label # "")
         IN [i \in DOMAIN labelled |-> <<labelled[i].label, labelled[i].bbox>>]
\* cudag bbox_to_ru(bbox, image.size): (x, y, w, h) to [x1, y1, x2, y2] in RU
bbox_to_ru(bbox, size) ==
    <<ToRU(bbox[1], size[1]), ToRU(bbox[2], size[2]),
      ToRU(bbox[1] + bbox[3], size[1]), ToRU(bbox[2] + bbox[4], size[2])>>
GroundingPrompts(label) ==
    { <<"Locate the", label>>, <<"Find the bounding box of the", label>>,
      <<"Where is the", label, "?">>, <<"Identify the", label, "region">> }
\* variant: the label filter is dropped
matches_Unfiltered(groundable, element_label) == groundable
\* matches = [(l, b) for l, b in groundable if l == element_label]
matches(groundable, element_label) ==
    SelectSeq(groundable, LAMBDA g : g[1] = element_label)
\* _generate_grounding_sample raises ValueError: nothing is groundable, or a label was
\* asked for ("if element_label:" is false for None and for "") and no element has it
GroundingRaises(c, element_label) ==
    \/ get_all_groundable_elements(c) = <<>>
    \/ element_label # "" /\ matches(get_all_groundable_elements(c), element_label) = <<>>
\* the (label, bbox) _generate_grounding_sample selects: matches[0], or rng.choice
SelectedElements(c, element_label) ==
    IF element_label # ""
    THEN {matches(get_all_groundable_elements(c), element_label)[1]}
    ELSE ChoiceOutcomes(get_all_groundable_elements(c))
\* the sample built for the selected element and the prompt rng.choice picked
GroundingSample(kind, tolerance, picked, prompt, size) ==
    [Sample(kind, <<>>, "grounding", prompt, "get_bbox", NoCoord, 0,
            <<picked[2][1] + picked[2][3] \div 2, picked[2][2] + picked[2][4] \div 2>>,
            tolerance, size, <<>>, picked[1], "", "")
       EXCEPT !.bbox_2d = bbox_to_ru(picked[2], size)]
\* _generate_grounding_sample, when it does not raise: every sample it can return
_generate_grounding_sample(c, st, image, element_label) ==
    { GroundingSample("generated", <<50, 50>>, picked, prompt, image.size) :
        <<picked, prompt>> \in
            UNION {{<<g, p>> : p \in GroundingPrompts(g[1])} :
                     g \in SelectedElements(c, element_label)} }
\* the element_label arguments generate_sample("grounding") is called with: none, the
\* label of an annotated element, a label no element has
ElementLabelArgs(c) ==
    {"", "nowhere"} \cup {c.elements[i].label : i \in DOMAIN c.elements}

(***************************************************************************)
(* tasks/grounding_task.py: GroundingTask.                                 *)
(***************************************************************************)
\* GroundingTask.generate_sample after render and save_image, when the element list
\* captured by __init__ is not empty: every sample it can return
GroundingTask_generate_sample(c, st, image) ==
    { GroundingSample("task", <<>>, picked, prompt, image.size) :
        <<picked, prompt>> \in
            UNION {{<<g, p>> : p \in GroundingPrompts(g[1])} :
                     g \in ChoiceOutcomes(get_all_groundable_elements(c))} }

(***************************************************************************)
(* tasks/click_desktop_icon.py: ClickDesktopIconTask.                      *)
(***************************************************************************)
\* DesktopState.get_desktop_icon_by_id
HasDesktopIcon(st, icon_id) ==
    \E i \in DOMAIN st.desktop_icons : st.desktop_icons[i].icon_id = icon_id
get_desktop_icon_by_id(st, icon_id) ==
    st.desktop_icons[CHOOSE i \in DOMAIN st.desktop_icons :
        /\ st.desktop_icons[i].icon_id = icon_id
        /\ \A j \in 1..(i - 1) : st.desktop_icons[j].icon_id # icon_id]
\* ClickDesktopIconTask.generate_samples after render and save_image, when the od icon
\* is in the state
ClickDesktopIconTask_generate_samples(c, st, image) ==
    LET od_icon == get_desktop_icon_by_id(st, "od")
        DESKTOP_ICONS == get_desktop_icons(c)
        label == IF HasIcon(DESKTOP_ICONS, "od") THEN IconInfo(DESKTOP_ICONS, "od").label
                 ELSE "Open Dental"
    IN << Sample("task", <<"_od">>, "click-desktop-icon",
                 <<"Click on the", label, "icon on the desktop.">>, "left_click",
                 center(od_icon), 0, center(od_icon), <<>>, image.size, <<>>, "",
                 "od", label) >>

(***************************************************************************)
(* workflow.py                                                             *)
(***************************************************************************)
\* DesktopState.get_taskbar_icon_by_id
HasTaskbarIcon(st, icon_id) ==
    \E i \in DOMAIN st.taskbar_icons : st.taskbar_icons[i].icon_id = icon_id
get_taskbar_icon_by_id(st, icon_id) ==
    st.taskbar_icons[CHOOSE i \in DOMAIN st.taskbar_icons :
        /\ st.taskbar_icons[i].icon_id = icon_id
        /\ \A j \in 1..(i - 1) : st.taskbar_icons[j].icon_id # icon_id]
\* render_desktop_click_od, after render, when the od icon is in the state
render_desktop_click_od(st, image) ==
    LET od_icon == get_desktop_icon_by_id(st, "od")
        click_x == center(od_icon)[1]
        click_y == center(od_icon)[2]
        norm_x == ToRU(click_x, image.size[1])
        norm_y == ToRU(click_y, image.size[2])
    IN Sample("workflow", <<>>, "click-desktop-icon",
              <<"Double-click the Open Dental icon on the desktop">>, "double_click",
              <<norm_x, norm_y>>, 0, <<click_x, click_y>>, <<30, 30>>, image.size, <<>>,
              "desktop", "od", "")
\* render_desktop_click_taskbar_od, after render, when the od icon is in the state
render_desktop_click_taskbar_od(st, image) ==
    LET od_icon == get_taskbar_icon_by_id(st, "od")
        click_x == center(od_icon)[1]
        click_y == center(od_icon)[2]
        norm_x == ToRU(click_x, image.size[1])
        norm_y == ToRU(click_y, image.size[2])
    IN Sample("workflow", <<>>, "click-taskbar-icon",
              <<"Click the Open Dental icon in the taskbar">>, "left_click",
              <<norm_x, norm_y>>, 0, <<click_x, click_y>>, <<15, 15>>, image.size, <<>>,
              "taskbar", "od", "")

(***************************************************************************)
(* DesktopState.generate                                                   *)
(***************************************************************************)
Generate ==
    /\ pc = "idle"
    /\ \E who \in GenerateCallers(cfg) :
       \E args \in GenerateArgs(who), d \in DatetimeDraws :
       \E placed \in JointOutcomes(DesktopLayouts(cfg, args[1]),
                                   TaskbarLayouts(cfg, args[2])) :
       LET desktop == placed[1]
           taskbar == placed[2]
       IN
          /\ state' = [od_loading_visible |-> args[3],
                       datetime_text |-> _generate_datetime(d),
                       datetime_position |-> _get_datetime_position(cfg),
                       desktop_icons |-> desktop.placements,
                       taskbar_icons |-> taskbar]
          /\ layout_style' = desktop.style
          /\ caller' = who
    /\ pc' = "generated"
    /\ UNCHANGED <<cfg, entry, img, metadata, samples, raised, rerun, label_arg, saved>>
    /\ UNCHANGED aux

\* the rest of an entry point after DesktopState.generate: render, save_image where the
\* entry point persists its image (did_save), then return or raise
\* st is the state the entry point hands to render: the generated one, or that state
\* after the entry point has assigned to its fields
FinishOn(st, name, out, err, did_save, label) ==
    /\ pc = "generated"
    /\ state' = st
    /\ img' = render(cfg, st).image
    /\ metadata' = render(cfg, st).metadata
    /\ entry' = name
    /\ samples' = out
    /\ raised' = err
    /\ saved' = did_save
    /\ label_arg' = label
    /\ pc' = "done"
    /\ UNCHANGED <<cfg, caller, layout_style, rerun>>
    /\ UNCHANGED aux
FinishWith(name, out, err, did_save, label) ==
    FinishOn(state, name, out, err, did_save, label)
\* a task's entry point: it saves the image it rendered (cropped or whole)
FinishSaved(name, out, err) == FinishWith(name, out, err, TRUE, "")
\* an entry point of api.py or workflow.py: the image is returned, nothing is saved
Finish(name, out, err) == FinishWith(name, out, err, FALSE, "")
\* an entry point that returns [] before it generates anything
ReturnEmpty(name) ==
    /\ pc = "idle"
    /\ entry' = name
    /\ samples' = <<>>
    /\ pc' = "done"
    /\ UNCHANGED <<cfg, caller, state, layout_style, img, metadata, raised, rerun, label_arg, saved>>
    /\ UNCHANGED aux

IconListTaskGenerateSamples ==
    /\ caller = "IconListTask"
    /\ FinishSaved("IconListTask.generate_samples", IconListTask_generate_samples(cfg, state), "")
IconListTaskGenerateTests ==
    /\ caller = "IconListTask"
    /\ FinishSaved("IconListTask.generate_tests", IconListTask_generate_tests(cfg, state), "")
IconListTaskReturnsEmpty ==
    /\ ~IconListTaskRuns(cfg)
    /\ \E name \in {"IconListTask.generate_samples", "IconListTask.generate_tests"} :
          ReturnEmpty(name)
WaitLoadingTaskGenerateSamples ==
    /\ caller = "WaitLoadingTask"
    /\ FinishSaved("WaitLoadingTask.generate_samples",
                   WaitLoadingTask_generate_samples(cfg, state), "")
WaitLoadingTaskGenerateTests ==
    /\ caller = "WaitLoadingTask"
    /\ FinishSaved("WaitLoadingTask.generate_tests",
                   WaitLoadingTask_generate_tests(cfg, state), "")
WaitLoadingTaskReturnsEmpty ==
    /\ ~WaitLoadingTaskRuns(cfg)
    /\ \E name \in {"WaitLoadingTask.generate_samples", "WaitLoadingTask.generate_tests"} :
          ReturnEmpty(name)

\* generate_sample(task_type, state): the state is the caller's, or the one generated
\* with od_loading_visible = (task_type == "wait-loading")
GenerateSampleCalled(task_type) ==
    \/ caller = "caller"
    \/ caller = "generate_sample" /\ state.od_loading_visible = (task_type = "wait-loading")
GenerateSampleIconlist ==
    /\ GenerateSampleCalled("iconlist")
    /\ Finish("generate_sample.iconlist",
              _generate_iconlist_samples(cfg, state, render(cfg, state).image), "")
GenerateSampleWaitLoading ==
    /\ GenerateSampleCalled("wait-loading")
    /\ Finish("generate_sample.wait-loading",
              _generate_wait_samples(cfg, state, render(cfg, state).image), "")
GenerateSampleGrounding ==
    /\ GenerateSampleCalled("grounding")
    /\ \E element_label \in ElementLabelArgs(cfg) :
          IF GroundingRaises(cfg, element_label)
          THEN FinishWith("generate_sample.grounding", <<>>, "ValueError", FALSE,
                          element_label)
          ELSE \E s \in _generate_grounding_sample(cfg, state, render(cfg, state).image,
                                                   element_label) :
                  FinishWith("generate_sample.grounding", <<s>>, "", FALSE, element_label)
GenerateSampleUnknown ==
    /\ GenerateSampleCalled("bogus")
    /\ Finish("generate_sample.bogus", <<>>, "ValueError")

\* an entry point that raises before it generates anything
RaiseEarly(name, err) ==
    /\ pc = "idle"
    /\ entry' = name
    /\ samples' = <<>>
    /\ raised' = err
    /\ pc' = "done"
    /\ UNCHANGED <<cfg, caller, state, layout_style, img, metadata, rerun, label_arg, saved>>
    /\ UNCHANGED aux
\* WaitLoadingTask.generate_sample: the first of generate_samples' samples, ValueError
\* when there is none
WaitLoadingTaskGenerateSample ==
    /\ caller = "WaitLoadingTask"
    /\ LET out == WaitLoadingTask_generate_samples(cfg, state)
       IN IF out = <<>>
          THEN FinishSaved("WaitLoadingTask.generate_sample", <<>>, "ValueError")
          ELSE FinishSaved("WaitLoadingTask.generate_sample", <<out[1]>>, "")
WaitLoadingTaskGenerateSampleNoSamples ==
    /\ ~WaitLoadingTaskRuns(cfg)
    /\ RaiseEarly("WaitLoadingTask.generate_sample", "ValueError")
\* ClickDesktopIconTask.generate_samples: generate, render, save_image, then the lookup
\* of the od icon, which raises ValueError when the state has none
ClickDesktopIconTaskGenerateSamples ==
    /\ caller = "ClickDesktopIconTask"
    /\ IF HasDesktopIcon(state, "od")
       THEN FinishSaved("ClickDesktopIconTask.generate_samples",
                        ClickDesktopIconTask_generate_samples(cfg, state,
                                                              render(cfg, state).image), "")
       ELSE FinishSaved("ClickDesktopIconTask.generate_samples", <<>>, "ValueError")
\* GroundingTask.generate_sample: generate, render, save_image, then rng.choice of the
\* groundable elements, which raises IndexError on an empty list
GroundingTaskGenerateSample ==
    /\ caller = "GroundingTask"
    /\ IF get_all_groundable_elements(cfg) = <<>>
       THEN FinishSaved("GroundingTask.generate_sample", <<>>, "IndexError")
       ELSE \E s \in GroundingTask_generate_sample(cfg, state, render(cfg, state).image) :
               FinishSaved("GroundingTask.generate_sample", <<s>>, "")

\* the datetime_text argument of the workflow functions: None, or a text
NoText == <<>>
DatetimeTextArgs == {NoText, << <<9, 41, "AM">>, <<6, 9, 2025>> >>}
OverrideDatetime_AndLoading(st, datetime_text) ==
    IF datetime_text # NoText
    THEN [st EXCEPT !.datetime_text = datetime_text, !.od_loading_visible = TRUE]
    ELSE st
\* "if datetime_text: state.datetime_text = datetime_text"
OverrideDatetime(st, datetime_text) ==
    IF datetime_text # NoText THEN [st EXCEPT !.datetime_text = datetime_text] ELSE st
RenderDesktopClickTaskbarOd ==
    /\ caller = "render_desktop_click_taskbar_od"
    /\ \E datetime_text \in DatetimeTextArgs :
       LET st == OverrideDatetime(state, datetime_text)
       IN IF HasTaskbarIcon(st, "od")
          THEN FinishOn(st, "render_desktop_click_taskbar_od",
                        <<render_desktop_click_taskbar_od(st, render(cfg, st).image)>>, "",
                        FALSE, "")
          ELSE FinishOn(st, "render_desktop_click_taskbar_od", <<>>, "ValueError", FALSE, "")
RenderDesktopClickOd ==
    /\ caller = "render_desktop_click_od"
    /\ \E datetime_text \in DatetimeTextArgs :
       LET st == OverrideDatetime(state, datetime_text)
       IN IF HasDesktopIcon(st, "od")
          THEN FinishOn(st, "render_desktop_click_od",
                        <<render_desktop_click_od(st, render(cfg, st).image)>>, "", FALSE, "")
          ELSE FinishOn(st, "render_desktop_click_od", <<>>, "ValueError", FALSE, "")

(***************************************************************************)
(* A second run of the same entry point on the same inputs.                *)
(***************************************************************************)
NoRerun == [state |-> EmptyState, samples |-> <<>>, raised |-> ""]
\* what the entry point returns or raises for a state
EntryOutcomes(name, c, st) ==
    LET image == render(c, st).image
        returns(out) == [samples |-> out, raised |-> ""]
        raises == [samples |-> <<>>, raised |-> "ValueError"]
    IN CASE name = "IconListTask.generate_samples" ->
              {returns(IconListTask_generate_samples(c, st))}
         [] name = "IconListTask.generate_tests" ->
              {returns(IconListTask_generate_tests(c, st))}
         [] name = "WaitLoadingTask.generate_samples" ->
              {returns(WaitLoadingTask_generate_samples(c, st))}
         [] name = "WaitLoadingTask.generate_tests" ->
              {returns(WaitLoadingTask_generate_tests(c, st))}
         [] name = "generate_sample.iconlist" ->
              {returns(_generate_iconlist_samples(c, st, image))}
         [] name = "generate_sample.wait-loading" ->
              {returns(_generate_wait_samples(c, st, image))}
         [] name = "generate_sample.grounding" ->
              IF GroundingRaises(c, label_arg) THEN {raises}
              ELSE {returns(<<s>>) : s \in _generate_grounding_sample(c, st, image, label_arg)}
         [] name = "WaitLoadingTask.generate_sample" ->
              IF WaitLoadingTask_generate_samples(c, st) = <<>> THEN {raises}
              ELSE {returns(<<WaitLoadingTask_generate_samples(c, st)[1]>>)}
         [] name = "ClickDesktopIconTask.generate_samples" ->
              IF HasDesktopIcon(st, "od")
              THEN {returns(ClickDesktopIconTask_generate_samples(c, st, image))}
              ELSE {raises}
         [] name = "GroundingTask.generate_sample" ->
              IF get_all_groundable_elements(c) = <<>>
              THEN {[samples |-> <<>>, raised |-> "IndexError"]}
              ELSE {returns(<<s>>) : s \in GroundingTask_generate_sample(c, st, image)}
         [] name = "render_desktop_click_od" ->
              IF HasDesktopIcon(st, "od")
              THEN {returns(<<render_desktop_click_od(st, image)>>)}
              ELSE {raises}
         [] name = "render_desktop_click_taskbar_od" ->
              IF HasTaskbarIcon(st, "od")
              THEN {returns(<<render_desktop_click_taskbar_od(st, image)>>)}
              ELSE {raises}
         [] OTHER -> {raises}
\* the entry point runs again with an rng that yields the same values (the task
\* context's seeded rng, Random(42), or a state the caller built): generate takes the
\* same path and the emission repeats its draws
RerunSeeded ==
    /\ pc = "done"
    /\ caller \in {"IconListTask", "WaitLoadingTask", "GroundingTask", "ClickDesktopIconTask",
                   "render_desktop_click_taskbar_od", "render_desktop_click_od", "caller"}
    /\ rerun' = [state |-> state, samples |-> samples, raised |-> raised]
    /\ pc' = "rerun"
    /\ UNCHANGED <<cfg, caller, state, layout_style, entry, img, metadata, samples, raised, label_arg, saved>>
    /\ UNCHANGED aux
\* generate_sample(task_type) runs again without state and without rng: "rng = Random()"
\* is seeded from the operating system, so its values are drawn afresh
RerunUnseeded ==
    /\ pc = "done"
    /\ caller = "generate_sample"
    /\ \E d \in DatetimeDraws :
       \E placed \in JointOutcomes(DesktopLayouts(cfg, 5), TaskbarLayouts(cfg, 3)) :
       LET st == [od_loading_visible |-> state.od_loading_visible,
                  datetime_text |-> _generate_datetime(d),
                  datetime_position |-> _get_datetime_position(cfg),
                  desktop_icons |-> placed[1].placements,
                  taskbar_icons |-> placed[2]]
       IN \E out \in EntryOutcomes(entry, cfg, st) :
             rerun' = [state |-> st, samples |-> out.samples, raised |-> out.raised]
    /\ pc' = "rerun"
    /\ UNCHANGED <<cfg, caller, state, layout_style, entry, img, metadata, samples, raised, label_arg, saved>>
    /\ UNCHANGED aux

(***************************************************************************)
(* The renderer and its assets: api._get_renderer, the workflow functions' *)
(* own DesktopRenderer(), DesktopRenderer.render's load_base_image.  Two   *)
(* threads of one process call generate_sample and the workflow functions. *)
(***************************************************************************)
Workers == {"t1", "t2"}
EntryFunctions == {"generate_sample", "render_desktop_click_od"}
AssetsInit ==
    /\ _renderer = "None"
    /\ asset_loads = 0
    /\ base_image_loads = 0
    /\ render_calls = 0
    /\ worker = [w \in Workers |-> [fn |-> "", at |-> "idle", calls |-> 0]]
\* a thread enters generate_sample (api.py:85) or a workflow function (workflow.py:67)
EnterCall(w) ==
    /\ worker[w].at = "idle"
    /\ worker[w].calls < MaxCalls
    /\ \E fn \in EntryFunctions :
          worker' = [worker EXCEPT ![w].fn = fn,
                                   ![w].at = IF fn = "generate_sample" THEN "_get_renderer"
                                             ELSE "DesktopRenderer"]
    /\ UNCHANGED <<pipeline, checkpointing, placing, placement_call, _renderer, asset_loads, base_image_loads, render_calls>>
\* _get_renderer: "if _renderer is None"
GetRendererTest(w) ==
    /\ worker[w].at = "_get_renderer"
    /\ worker' = [worker EXCEPT ![w].at = IF _renderer = "None" THEN "construct"
                                          ELSE "render"]
    /\ UNCHANGED <<pipeline, checkpointing, placing, placement_call, _renderer, asset_loads, base_image_loads, render_calls>>
\* _get_renderer: "_renderer = DesktopRenderer(assets_dir=...)"; BaseRenderer.__init__
\* calls load_assets()
GetRendererConstruct(w) ==
    /\ worker[w].at = "construct"
    /\ _renderer' = "DesktopRenderer"
    /\ asset_loads' = asset_loads + 1
    /\ worker' = [worker EXCEPT ![w].at = "load_assets"]
    /\ UNCHANGED <<pipeline, checkpointing, placing, placement_call, base_image_loads, render_calls>>
\* _get_renderer: "_renderer.load_assets()"
GetRendererLoadAssets(w) ==
    /\ worker[w].at = "load_assets"
    /\ asset_loads' = asset_loads + 1
    /\ worker' = [worker EXCEPT ![w].at = "render"]
    /\ UNCHANGED <<pipeline, checkpointing, placing, placement_call, _renderer, base_image_loads, render_calls>>
\* a workflow function: "renderer = DesktopRenderer()", a renderer of its own
WorkflowConstruct(w) ==
    /\ worker[w].at = "DesktopRenderer"
    /\ asset_loads' = asset_loads + 1
    /\ worker' = [worker EXCEPT ![w].at = "render"]
    /\ UNCHANGED <<pipeline, checkpointing, placing, placement_call, _renderer, base_image_loads, render_calls>>
\* renderer.render(state): load_base_image opens the masked image of the annotation,
\* then the call returns
RenderCall(w) ==
    /\ worker[w].at = "render"
    /\ base_image_loads' = base_image_loads + 1
    /\ render_calls' = render_calls + 1
    /\ worker' = [worker EXCEPT ![w].at = "idle", ![w].calls = @ + 1]
    /\ UNCHANGED <<pipeline, checkpointing, placing, placement_call, _renderer, asset_loads>>

(***************************************************************************)
(* modal_apps/generate.py: generate_dataset, its checkpoint file and the   *)
(* retries Modal makes after a preemption.                                 *)
(***************************************************************************)
max_retries == 3
initial_delay == 1
checkpoint_interval == 1000
\* the samples of the whole dataset
total == MaxIntervals * checkpoint_interval
NoCheckpoint == -1
\* the dataset_name argument: None (""), or a custom name
DatasetNameArgs == {"", "desktop--mike--test"}
\* f"desktop--{researcher}--{timestamp}", the timestamp to the second
TimestampName(researcher, now) == <<"desktop", researcher, now>>
CustomName == <<"desktop", "mike", -1>>
OutputDirs == {CustomName} \cup {TimestampName("modal", t) : t \in 0..MaxClock}
NoJob ==
    [status |-> "none", dataset_name_arg |-> "", dataset_name |-> CustomName,
     start_index |-> 0, samples_done |-> 0, attempt |-> 0, preempted_at |-> 0,
     written |-> NoCheckpoint]
CheckpointInit ==
    /\ clock = 0
    /\ volume = [dir \in OutputDirs |-> NoCheckpoint]
    /\ job = NoJob
\* generate_dataset up to builder.build: the dataset name, the checkpoint lookup and the
\* start index; written is the checkpoint the preempted run left, if this is a retry
RunStarts(dataset_name_arg, attempt, written) ==
    LET dataset_name == IF dataset_name_arg = "" THEN TimestampName("modal", clock)
                        ELSE CustomName
        checkpoint == volume[dataset_name]
        start_index == IF checkpoint # NoCheckpoint THEN checkpoint ELSE 0
    IN job' = [status |-> "running", dataset_name_arg |-> dataset_name_arg,
               dataset_name |-> dataset_name, start_index |-> start_index,
               samples_done |-> start_index, attempt |-> attempt, preempted_at |-> 0,
               written |-> written]
\* generate_dataset.remote(dataset_name=...)
InvokeGenerateDataset ==
    /\ job.status = "none"
    /\ \E dataset_name_arg \in DatasetNameArgs : RunStarts(dataset_name_arg, 0, NoCheckpoint)
    /\ UNCHANGED <<pipeline, assets, placing, placement_call, clock, volume>>
\* a second passes
Tick ==
    /\ clock < MaxClock
    /\ clock' = clock + 1
    /\ UNCHANGED <<pipeline, assets, placing, placement_call, volume, job>>
\* builder.build generates the next checkpoint_interval samples and calls
\* checkpoint_callback, which writes the checkpoint file and commits the volume
BuildInterval ==
    /\ job.status = "running"
    /\ job.samples_done < total
    /\ job' = [job EXCEPT !.samples_done = @ + checkpoint_interval]
    /\ volume' = [volume EXCEPT ![job.dataset_name] = job.samples_done + checkpoint_interval]
    /\ UNCHANGED <<pipeline, assets, placing, placement_call, clock>>
\* the container is preempted while generating
Preempted ==
    /\ job.status = "running"
    /\ job.samples_done < total
    /\ job.attempt < max_retries
    /\ job' = [job EXCEPT !.status = "preempted", !.preempted_at = clock,
                           !.written = volume[job.dataset_name]]
    /\ UNCHANGED <<pipeline, assets, placing, placement_call, clock, volume>>
\* Modal retries the function with the same arguments after initial_delay seconds
Retry ==
    /\ job.status = "preempted"
    /\ clock >= job.preempted_at + initial_delay
    /\ RunStarts(job.dataset_name_arg, job.attempt + 1, job.written)
    /\ UNCHANGED <<pipeline, assets, placing, placement_call, clock, volume>>
\* generation is complete: the checkpoint file is removed
GenerationComplete ==
    /\ job.status = "running"
    /\ job.samples_done = total
    /\ volume' = [volume EXCEPT ![job.dataset_name] = NoCheckpoint]
    /\ job' = [job EXCEPT !.status = "complete"]
    /\ UNCHANGED <<pipeline, assets, placing, placement_call, clock>>

(***************************************************************************)
(* The random strategy of _place_desktop_icons, one rng draw per step.     *)
(***************************************************************************)
NoAccept == [pos |-> NoCoord, n |-> 0, hits |-> 0]
NoPlacing ==
    [phase |-> "idle", icon_ids |-> <<>>, used_positions |-> <<>>, k |-> 0,
     attempts |-> 0, xy |-> NoCoord, hit |-> FALSE, hits |-> 0, last |-> NoAccept,
     placements |-> <<>>]
PlacingInit == placing = NoPlacing
\* "for _ in range(50)" with "if not overlaps: break": whether another attempt follows
\* after `attempts` draws, the last of which overlapped iff hit
LoopContinues(attempts, hit) == attempts < MAX_ATTEMPTS /\ (attempts = 0 \/ hit)
\* the random branch is entered with the selected icon_ids and no used position
EnterRandom ==
    /\ placing.phase = "idle"
    /\ "random" \in LayoutStyles(cfg)
    /\ \E icon_ids \in DesktopSelections(cfg, 5) :
          placing' = [NoPlacing EXCEPT !.phase = "loop", !.icon_ids = icon_ids, !.k = 1]
    /\ UNCHANGED <<pipeline, assets, checkpointing, placement_call>>
\* one attempt: x = rng.randint(start_x, max_x), y = rng.randint(start_y, max_y) and
\* the overlap test against used_positions
DrawPosition ==
    /\ placing.phase = "loop"
    /\ placing.k <= Len(placing.icon_ids)
    /\ LoopContinues(placing.attempts, placing.hit)
    /\ \E xy \in PositionDraws(cfg) :
          LET hit == overlaps(cfg, xy[1], xy[2], placing.used_positions)
          IN placing' = [placing EXCEPT !.attempts = @ + 1, !.xy = xy, !.hit = hit,
                                        !.hits = IF hit THEN @ + 1 ELSE @,
                                        !.last = NoAccept]
    /\ UNCHANGED <<pipeline, assets, checkpointing, placement_call>>
\* after the inner loop: used_positions.append((x, y)), placements.append(...)
AppendPlacement ==
    /\ placing.phase = "loop"
    /\ placing.k <= Len(placing.icon_ids)
    /\ placing.attempts >= 1
    /\ ~LoopContinues(placing.attempts, placing.hit)
    /\ LET used == Append(placing.used_positions, placing.xy)
       IN placing' =
            [placing EXCEPT
               !.used_positions = used,
               !.placements = RandomPlacements(cfg, SubSeq(placing.icon_ids, 1, placing.k),
                                               used),
               !.last = [pos |-> placing.xy, n |-> placing.attempts,
                         hits |-> placing.hits],
               !.k = @ + 1, !.attempts = 0, !.hit = FALSE, !.hits = 0, !.xy = NoCoord]
    /\ UNCHANGED <<pipeline, assets, checkpointing, placement_call>>
\* "return placements" once the outer loop has run through icon_ids
ReturnPlacements ==
    /\ placing.phase = "loop"
    /\ placing.k > Len(placing.icon_ids)
    /\ placing' = [placing EXCEPT !.phase = "returned"]
    /\ UNCHANGED <<pipeline, assets, checkpointing, placement_call>>

(***************************************************************************)
(* One call of _place_desktop_icons or _place_taskbar_icons, with the list  *)
(* it selected kept next to the placements it returned.                     *)
(***************************************************************************)
NotPlaced ==
    [region |-> "", num_icons |-> 0, icon_ids |-> <<>>, layout_style |-> "",
     placements |-> <<>>]
PlacedInit == placement_call = NotPlaced
\* the num_icons a call is made with
CountHints == {0, 5, MaxHint}
PlaceDesktopIcons ==
    /\ placement_call = NotPlaced
    /\ \E num_icons \in CountHints :
       LET selections == DesktopSelections(cfg, num_icons) IN
       \E n \in {Len(ids) : ids \in selections} :
       LET drawn == {u.used : u \in RandomPositions(cfg, n)} IN
       \E icon_ids \in {ids \in selections : Len(ids) = n} :
       \E r \in DesktopPlacementsOf(cfg, icon_ids, drawn) :
          placement_call' = [region |-> "desktop", num_icons |-> num_icons, icon_ids |-> icon_ids,
                     layout_style |-> r.style, placements |-> r.placements]
    /\ UNCHANGED <<pipeline, assets, checkpointing, placing>>
PlaceTaskbarIcons ==
    /\ placement_call = NotPlaced
    /\ \E num_icons \in CountHints :
       \E selected \in TaskbarSelections(cfg, num_icons) :
          placement_call' = [region |-> "taskbar", num_icons |-> num_icons, icon_ids |-> selected,
                     layout_style |-> "", placements |-> TaskbarPlacements(selected)]
    /\ UNCHANGED <<pipeline, assets, checkpointing, placing>>

AuxInit ==
    /\ AssetsInit
    /\ CheckpointInit
    /\ PlacingInit
    /\ PlacedInit

InitWith(configs) ==
    /\ cfg \in configs
    /\ pc = "idle"
    /\ caller = ""
    /\ state = EmptyState
    /\ layout_style = ""
    /\ entry = ""
    /\ img = NoImage
    /\ metadata = NoMetadata
    /\ samples = <<>>
    /\ raised = ""
    /\ rerun = NoRerun
    /\ label_arg = ""
    /\ saved = FALSE
    /\ AuxInit

\* the layout generator alone, on every configuration
InitGen == InitWith(Configs)
NextGen == Generate
SpecGen == InitGen /\ [][NextGen]_vars

\* the random strategy draw by draw, on the configurations that can choose it
RandomCfgs ==
    { LayoutCfg(both, both, layout, size, DCatSmall) :
        both \in BOOLEAN, layout \in {"", "random"}, size \in {<<0, 0>>, <<48, 64>>} }
InitRandom == InitWith(RandomCfgs)
NextRandom ==
    \/ EnterRandom
    \/ DrawPosition
    \/ AppendPlacement
    \/ ReturnPlacements
SpecRandom == InitRandom /\ [][NextRandom]_vars /\ WF_vars(NextRandom)

\* the two placement functions alone, on every configuration
InitPlace == InitWith(Configs)
NextPlace ==
    \/ PlaceDesktopIcons
    \/ PlaceTaskbarIcons
SpecPlace == InitPlace /\ [][NextPlace]_vars

\* an icon with a bitmap under its own id and under its alias
DirectKeyCfgs ==
    { AnnCfg(<<DesktopEl(FALSE, FALSE, "stacked", <<0, 0, 1914, 1032>>, 0, 0),
               TaskbarEl(FALSE, FALSE), LoadingEl>>,
             TasksStandard, DCatSmall, TCatSmall, DirectCache) }
\* generate, render and emit
PipelineCfgs ==
    {NoAnnotationCfg} \cup BulkDesktopCfgs \cup TaskbarCfgs \cup TaskCfgs \cup NoDesktopCfgs
    \cup DesktopCatalogCfgs \cup LandmarkCfgs \cup DirectKeyCfgs
Init == InitWith(PipelineCfgs)
Next ==
    \/ Generate
    \/ IconListTaskGenerateSamples
    \/ IconListTaskGenerateTests
    \/ IconListTaskReturnsEmpty
    \/ WaitLoadingTaskGenerateSamples
    \/ WaitLoadingTaskGenerateTests
    \/ WaitLoadingTaskReturnsEmpty
    \/ GenerateSampleIconlist
    \/ GenerateSampleWaitLoading
    \/ GenerateSampleGrounding
    \/ GenerateSampleUnknown
    \/ GroundingTaskGenerateSample
    \/ WaitLoadingTaskGenerateSample
    \/ WaitLoadingTaskGenerateSampleNoSamples
    \/ ClickDesktopIconTaskGenerateSamples
    \/ RenderDesktopClickTaskbarOd
    \/ RenderDesktopClickOd
Spec == Init /\ [][Next]_vars

\* the calls of two threads of one process, on the standard annotation
InitAssets == InitWith({LayoutCfg(FALSE, FALSE, "stacked", <<0, 0>>, DCatSmall)})
NextAssets ==
    \E w \in Workers :
        \/ EnterCall(w)
        \/ GetRendererTest(w)
        \/ GetRendererConstruct(w)
        \/ GetRendererLoadAssets(w)
        \/ WorkflowConstruct(w)
        \/ RenderCall(w)
SpecAssets == InitAssets /\ [][NextAssets]_vars

\* a generate_dataset job on Modal, with preemptions and retries
InitCheckpoint == InitWith({LayoutCfg(FALSE, FALSE, "stacked", <<0, 0>>, DCatSmall)})
NextCheckpoint ==
    \/ InvokeGenerateDataset
    \/ Tick
    \/ BuildInterval
    \/ Preempted
    \/ Retry
    \/ GenerationComplete
SpecCheckpoint == InitCheckpoint /\ [][NextCheckpoint]_vars

\* two runs of an entry point on the same inputs
RunCfgs ==
    { AnnCfg(<<DesktopEl(FALSE, FALSE, "sparse", <<0, 0, 1914, 1032>>, 0, 0),
               TaskbarEl(FALSE, FALSE), LoadingEl>>,
             tasks, DCatSmall, TCatSmall, FullCache) :
        tasks \in {TasksStandard, TasksTwoClicks, TasksNoWait} }
    \cup NoDesktopCfgs
InitRuns == InitWith(RunCfgs)
NextRuns == Next \/ RerunSeeded \/ RerunUnseeded
SpecRuns == InitRuns /\ [][NextRuns]_vars

(***************************************************************************)
(* Properties.                                                             *)
(***************************************************************************)
\* the bounding boxes (x, y, width, height) of two placements intersect
Intersect(p, q) ==
    /\ p.x < q.x + q.width
    /\ q.x < p.x + p.width
    /\ p.y < q.y + q.height
    /\ q.y < p.y + p.height
\* how often an icon id is placed in a region
Occurrences(placements, icon_id) ==
    Cardinality({i \in DOMAIN placements : placements[i].icon_id = icon_id})
\* the desktop placement a sample or test case is about
PlacementOf(st, icon_id) ==
    st.desktop_icons[CHOOSE i \in DOMAIN st.desktop_icons :
                        st.desktop_icons[i].icon_id = icon_id]

\* C1: every test case IconListTask.generate_tests emits for a (task template, icon)
\* pair carries the prompt, action, crop-relative pixel coordinates (icon center minus
\* crop origin), crop region and tolerance of the training sample that
\* IconListTask.generate_samples emits for that pair from the same state and config.
C1_TrainTestSamePipeline ==
    (pc = "done" /\ entry = "IconListTask.generate_tests") =>
        LET train == IconListTask_generate_samples(cfg, state)
            crop == get_element_by_label(cfg, "desktop").bbox
        IN \A i \in DOMAIN samples :
              LET t == samples[i]
                  pair == {j \in DOMAIN train : /\ train[j].task_type = t.task_type
                                                /\ train[j].icon_id = t.icon_id}
              IN /\ pair # {}
                 /\ \A j \in pair :
                       /\ train[j].prompt = t.prompt
                       /\ train[j].action = t.action
                       /\ train[j].coordinate = t.coordinate
                       /\ train[j].pixel_coords = t.pixel_coords
                       /\ train[j].crop_region = t.crop_region
                       /\ train[j].tolerance = t.tolerance
                 /\ t.pixel_coords =
                       <<center(PlacementOf(state, t.icon_id))[1] - crop[1],
                         center(PlacementOf(state, t.icon_id))[2] - crop[2]>>
\* C1 witness: test cases were emitted for a crop region whose origin is not (0, 0)
C1_Witness ==
    /\ pc = "done"
    /\ entry = "IconListTask.generate_tests"
    /\ samples # <<>>
    /\ get_element_by_label(cfg, "desktop").bbox[1] > 0
    /\ get_element_by_label(cfg, "desktop").bbox[2] > 0

\* C2: after DesktopState.generate, each catalog entry marked required for the desktop
\* appears exactly once in desktop_icons and each entry marked required for the taskbar
\* appears exactly once in taskbar_icons, for every catalog, hint, draw and layout.
C2_RequiredExactlyOnce ==
    pc = "generated" =>
        /\ \A i \in DOMAIN get_desktop_icons(cfg) :
              get_desktop_icons(cfg)[i].required =>
                 Occurrences(state.desktop_icons, get_desktop_icons(cfg)[i].id) = 1
        /\ \A i \in DOMAIN get_taskbar_icons(cfg) :
              get_taskbar_icons(cfg)[i].required =>
                 Occurrences(state.taskbar_icons, get_taskbar_icons(cfg)[i].id) = 1
\* C2 witness: the sparse layout was given more icons than its 48 cells, and the
\* required icon is not among the placements
C2_Witness ==
    /\ pc = "generated"
    /\ layout_style = "sparse"
    /\ Len(get_desktop_icons(cfg)) > sparse_cols * max_rows
    /\ Len(state.desktop_icons) = sparse_cols * max_rows
    /\ \E i \in DOMAIN get_desktop_icons(cfg) :
          /\ get_desktop_icons(cfg)[i].required
          /\ Occurrences(state.desktop_icons, get_desktop_icons(cfg)[i].id) = 0

\* C3: in a state generated with the stacked or the sparse desktop strategy no two
\* distinct desktop placements have intersecting bounding boxes, and no two distinct
\* taskbar placements ever do.
C3_NonOverlap ==
    pc = "generated" =>
        /\ layout_style \in {"stacked", "sparse"} =>
              \A i, j \in DOMAIN state.desktop_icons :
                 i # j => ~Intersect(state.desktop_icons[i], state.desktop_icons[j])
        /\ \A i, j \in DOMAIN state.taskbar_icons :
              i # j => ~Intersect(state.taskbar_icons[i], state.taskbar_icons[j])
\* C3 witness: a sparse layout filled several columns and rows, next to several taskbar
\* icons
C3_Witness ==
    /\ pc = "generated"
    /\ layout_style = "sparse"
    /\ Len(state.desktop_icons) > max_rows
    /\ Len(state.taskbar_icons) > 1

\* C4: two runs of an entry point on the same inputs (catalog, count hints, loading
\* flag, task type) produce identical DesktopStates and identical sample lists, also
\* when generate_sample is called without an explicit rng.
C4_Deterministic ==
    pc = "rerun" =>
        /\ rerun.state = state
        /\ rerun.samples = samples
        /\ rerun.raised = raised
\* C4 witness: generate_sample ran twice without state and rng and placed the desktop
\* icons differently
C4_Witness ==
    /\ pc = "rerun"
    /\ caller = "generate_sample"
    /\ rerun.state.desktop_icons # state.desktop_icons
    /\ rerun.samples # samples

\* the samples whose action carries a normalised click coordinate
NormalisedClicks ==
    {i \in DOMAIN samples : /\ samples[i].kind \in {"generated", "workflow"}
                            /\ samples[i].action = "left_click"}
\* C5: every click emitted by generate_sample and render_desktop_click_taskbar_od carries
\* integers 0 <= x < 1000 and 0 <= y < 1000, each floor(center / image dimension * 1000),
\* for every catalog size, count hint and layout strategy, desktop and taskbar alike.
C5_ClickCoordinateInRange ==
    pc = "done" =>
        \A i \in NormalisedClicks :
           \A axis \in {1, 2} :
              LET ru == samples[i].coordinate[axis]
                  px == samples[i].pixel_coords[axis]
                  dim == samples[i].image_size[axis]
              IN /\ ru * dim <= px * 1000
                 /\ px * 1000 < (ru + 1) * dim
                 /\ 0 <= ru
                 /\ ru < 1000
\* C5 witness: a click on a taskbar icon whose centre lies right of the frame
C5_Witness ==
    /\ pc = "done"
    /\ entry = "generate_sample.iconlist"
    /\ \E i \in NormalisedClicks :
          /\ samples[i].element_label = "taskbar"
          /\ samples[i].pixel_coords[1] >= FRAME_W
          /\ samples[i].coordinate[1] >= 1000

\* the cropped click samples of IconListTask
CroppedClicks ==
    {i \in DOMAIN samples : /\ entry \in {"IconListTask.generate_samples",
                                          "IconListTask.generate_tests"}
                            /\ samples[i].coordinate # NoCoord}
\* 1000 times (original centre - reconstructed centre) on one axis, where the
\* reconstructed centre is normalised * dimension / 1000 + crop offset
RoundTripError(s, axis) ==
    LET original == center(PlacementOf(state, s.icon_id))[axis]
        normalised == ToRU(s.pixel_coords[axis], s.image_size[axis])
    IN 1000 * (original - s.crop_region[axis]) - normalised * s.image_size[axis]
Rendered == pc = "done" /\ img # NoImage
\* C7: the ground truth render returns has exactly one entry per placement of the state
\* and no others, in the same order, with the same id, bounds and center; clock text,
\* clock position and loading flag equal the state's.
C7_GroundTruthMirror ==
    Rendered =>
        LET gt == metadata.ground_truth
        IN /\ Len(gt.desktop_icons) = Len(state.desktop_icons)
           /\ Len(gt.taskbar_icons) = Len(state.taskbar_icons)
           /\ \A i \in DOMAIN state.desktop_icons :
                 LET p == state.desktop_icons[i]
                 IN /\ gt.desktop_icons[i].id = p.icon_id
                    /\ gt.desktop_icons[i].bounds = <<p.x, p.y, p.width, p.height>>
                    /\ gt.desktop_icons[i].center =
                          <<p.x + p.width \div 2, p.y + p.height \div 2>>
           /\ \A i \in DOMAIN state.taskbar_icons :
                 LET p == state.taskbar_icons[i]
                 IN /\ gt.taskbar_icons[i].id = p.icon_id
                    /\ gt.taskbar_icons[i].bounds = <<p.x, p.y, p.width, p.height>>
                    /\ gt.taskbar_icons[i].center =
                          <<p.x + p.width \div 2, p.y + p.height \div 2>>
           /\ gt.datetime.text = state.datetime_text
           /\ gt.datetime.position = state.datetime_position
           /\ gt.od_loading_visible = state.od_loading_visible
\* C7 witness: a rendered state with several desktop and taskbar icons and the loading
\* flag set
C7_Witness ==
    /\ Rendered
    /\ Len(state.desktop_icons) > 1
    /\ Len(state.taskbar_icons) > 1
    /\ state.od_loading_visible

\* the ground-truth entry was pasted into the image at its position
Drawn(pasted, g) ==
    \E i \in DOMAIN pasted :
       pasted[i].icon_id = g.id /\ pasted[i].at = <<g.bounds[1], g.bounds[2]>>
\* C8: every icon entry of the ground truth render returns was pasted into the image; an
\* icon that was not drawn because its asset could not be resolved is not in it.
C8_GroundTruthIsDrawn ==
    Rendered =>
        /\ \A i \in DOMAIN metadata.ground_truth.desktop_icons :
              Drawn(img.desktop, metadata.ground_truth.desktop_icons[i])
        /\ \A i \in DOMAIN metadata.ground_truth.taskbar_icons :
              Drawn(img.taskbar, metadata.ground_truth.taskbar_icons[i])
\* C8 witness: a placed desktop icon has no bitmap and was not pasted, yet is in the
\* ground truth
C8_Witness ==
    /\ Rendered
    /\ \E i \in DOMAIN state.desktop_icons :
          /\ _resolve_icon_key(cfg, "desktop", state.desktop_icons[i].icon_id) = None
          /\ ~Drawn(img.desktop, metadata.ground_truth.desktop_icons[i])

\* C9: for a state with the loading panel visible no entry point emits a click-type
\* sample; every emitted sample is a wait with the configured duration and tolerance
\* (0, 0).
C9_LoadingOnlyWaits ==
    (pc = "done" /\ state.od_loading_visible) =>
        \A i \in DOMAIN samples :
           /\ samples[i].action = "wait"
           /\ HasWaitTask(cfg) => samples[i].duration = wait_time(cfg)
           /\ samples[i].tolerance = <<0, 0>>
\* C9 witness: generate_sample("iconlist", state) was given a state with the loading
\* panel visible and returned a click
C9_Witness ==
    /\ pc = "done"
    /\ state.od_loading_visible
    /\ entry = "generate_sample.iconlist"
    /\ \E i \in DOMAIN samples : samples[i].action = "left_click"

\* the click-type task templates that target the desktop region
ClickActions == {"left_click", "double_click", "right_click", "middle_click", "triple_click"}
ClickTemplates ==
    {t \in DOMAIN cfg.tasks :
        /\ cfg.tasks[t].action \in ClickActions
        /\ \E e \in DOMAIN cfg.elements :
              /\ cfg.elements[e].element_id = cfg.tasks[t].target_element_id
              /\ cfg.elements[e].label = "desktop"}
GroundableLabels ==
    {get_all_groundable_elements(cfg)[i][1] : i \in DOMAIN get_all_groundable_elements(cfg)}
GroundingEntries == {"generate_sample.grounding", "GroundingTask.generate_sample"}
\* C11: a grounding call that returns emits exactly one sample; its action is get_bbox
\* with a normalised box and no click coordinate; the element it names is in the global
\* groundable-element list with the box the list gives it; when generate_sample was given
\* an element_label the sample names that label.
C11_GroundingOneBBoxSample ==
    (pc = "done" /\ entry \in GroundingEntries /\ raised = "") =>
        /\ Len(samples) = 1
        /\ samples[1].action = "get_bbox"
        /\ samples[1].coordinate = NoCoord
        /\ Len(samples[1].bbox_2d) = 4
        /\ samples[1].element_label \in GroundableLabels
        /\ \E i \in DOMAIN get_all_groundable_elements(cfg) :
              /\ get_all_groundable_elements(cfg)[i][1] = samples[1].element_label
              /\ bbox_to_ru(get_all_groundable_elements(cfg)[i][2], samples[1].image_size)
                    = samples[1].bbox_2d
        /\ label_arg # "" => samples[1].element_label = label_arg
\* C11 witness: generate_sample("grounding", element_label="taskbar") returned a sample
\* although the list also holds other elements
C11_Witness ==
    /\ pc = "done"
    /\ entry = "generate_sample.grounding"
    /\ label_arg = "taskbar"
    /\ raised = ""
    /\ Len(samples) = 1
    /\ Cardinality(GroundableLabels) > 2
\* the task's entry point returned a sample
C11_WitnessTask ==
    /\ pc = "done"
    /\ entry = "GroundingTask.generate_sample"
    /\ Len(samples) = 1

\* the call asked for a task type, element or template the configuration does not have
ConfigurationError ==
    \/ entry = "generate_sample.bogus"
    \/ entry = "generate_sample.grounding" /\ GroundingRaises(cfg, label_arg)
    \/ entry = "GroundingTask.generate_sample" /\ get_all_groundable_elements(cfg) = <<>>
    \/ entry \in {"IconListTask.generate_samples", "IconListTask.generate_tests"}
          /\ ~IconListTaskRuns(cfg)
    \/ entry \in {"WaitLoadingTask.generate_samples", "WaitLoadingTask.generate_tests"}
          /\ ~WaitLoadingTaskRuns(cfg)
\* C12: a call with a configuration error (unknown task type, no matching element,
\* catalog or template) ends in an exception, and whenever a call ends in an exception
\* renderer.render has not run for it.
C12_ConfigErrorsFailFast ==
    pc = "done" =>
        /\ ConfigurationError => raised # ""
        /\ raised # "" => img = NoImage
\* C12 witness: generate_sample with an unknown task type raised ValueError after the
\* image had been rendered
C12_Witness ==
    /\ pc = "done"
    /\ entry = "generate_sample.bogus"
    /\ raised = "ValueError"
    /\ img # NoImage

\* C13: once an entry point has saved its image it does not raise: an entry point that
\* raised had not persisted anything.
C13_NoFailureAfterPersistence ==
    (pc = "done" /\ saved) => raised = ""
\* C13 witness: GroundingTask.generate_sample saved the rendered image and then raised
\* on the empty element list
C13_Witness ==
    /\ pc = "done"
    /\ entry = "GroundingTask.generate_sample"
    /\ saved
    /\ img # NoImage
    /\ raised = "IndexError"

\* C14: the assets are loaded once per process and no render call reads files: however
\* the calls of the threads interleave, load_assets has run at most once, exactly once when
\* a render call has completed, and render calls have opened no base image file.
C14_AssetsLoadedOnce ==
    /\ asset_loads <= 1
    /\ render_calls > 0 => asset_loads = 1
    /\ base_image_loads = 0
\* C14 witness: one thread, alone, has completed a single generate_sample call; the
\* assets were loaded twice and the render call opened the base image
C14_Witness ==
    /\ worker["t1"] = [fn |-> "generate_sample", at |-> "idle", calls |-> 1]
    /\ worker["t2"].calls = 0 /\ worker["t2"].at = "idle"
    /\ render_calls = 1
    /\ asset_loads = 2
    /\ base_image_loads = 1
\* two first calls of generate_sample interleaved: both saw _renderer unset
C14_WitnessRace ==
    /\ worker["t1"].at = "construct"
    /\ worker["t2"].at = "construct"

\* C15: a run of generate_dataset that is a retry after a preemption, when the preempted
\* run had left a checkpoint, starts at the samples_generated index of that checkpoint.
C15_ResumesFromCheckpoint ==
    (job.status = "running" /\ job.attempt > 0 /\ job.written # NoCheckpoint) =>
        job.start_index = job.written
\* C15 witness: the first run wrote a checkpoint at 1000 samples and was preempted;
\* the retry, with dataset_name unset, started at index 0
C15_Witness ==
    /\ job.status = "running"
    /\ job.attempt = 1
    /\ job.dataset_name_arg = ""
    /\ job.written = checkpoint_interval
    /\ job.start_index = 0
\* with a custom dataset name the retry resumes
C15_WitnessCustomName ==
    /\ job.status = "running"
    /\ job.attempt = 1
    /\ job.dataset_name_arg # ""
    /\ job.written = 2 * checkpoint_interval
    /\ job.start_index = 2 * checkpoint_interval

\* the normalised clicks on taskbar icons
TaskbarClicks ==
    {i \in NormalisedClicks :
        samples[i].kind = "workflow" \/ samples[i].element_label = "taskbar"}
\* 1000 times the pixel the normalised coordinate scales back to on one axis
ScaledBack(s, axis) == s.coordinate[axis] * s.image_size[axis]
\* C16: the normalised coordinate of every click on a taskbar icon, scaled back to pixels
\* by image dimension / 1000, lies in the icon's bounds [x, x + width) x [y, y + height).
C16_TaskbarClickInsideIcon ==
    pc = "done" =>
        \A i \in TaskbarClicks :
           LET icon == get_taskbar_icon_by_id(state, samples[i].icon_id)
           IN /\ samples[i].image_size = <<FRAME_W, FRAME_H>>
              /\ 1000 * icon.x <= ScaledBack(samples[i], 1)
              /\ ScaledBack(samples[i], 1) < 1000 * (icon.x + icon.width)
              /\ 1000 * icon.y <= ScaledBack(samples[i], 2)
              /\ ScaledBack(samples[i], 2) < 1000 * (icon.y + icon.height)
\* C16 witness: generate_sample emitted a click for the required taskbar icon od and for
\* another taskbar icon, and the scaled-back point is not the exact center
C16_Witness ==
    /\ pc = "done"
    /\ entry = "generate_sample.iconlist"
    /\ Cardinality(TaskbarClicks) > 1
    /\ \E i \in TaskbarClicks :
          /\ samples[i].icon_id = "od"
          /\ RequiredOf(get_taskbar_icons(cfg), "od")
          /\ ScaledBack(samples[i], 1) # 1000 * center(get_taskbar_icon_by_id(state, "od"))[1]

\* a grounding call returned a sample for an element whose box in the groundable-element
\* list is (100, 100, 200, 50), on a 1920x1080 image
GroundedLandmark ==
    /\ pc = "done"
    /\ entry \in GroundingEntries
    /\ raised = ""
    /\ samples[1].image_size = <<1920, 1080>>
    /\ \E i \in DOMAIN get_all_groundable_elements(cfg) :
          get_all_groundable_elements(cfg)[i] = <<samples[1].element_label, <<100, 100, 200, 50>>>>
DesktopCatalogEmpty(c) == c.ann /\ c.desktop_icons = <<>>
TaskbarCatalogEmpty(c) == c.ann /\ c.taskbar_icons = <<>>
\* C18: generate returns, and a region whose catalog is empty gets an empty placement
\* list, for every layout strategy and both vary-subset settings.
C18_EmptyCatalogEmptyPlacements ==
    pc = "generated" =>
        /\ DesktopCatalogEmpty(cfg) => state.desktop_icons = <<>>
        /\ TaskbarCatalogEmpty(cfg) => state.taskbar_icons = <<>>
\* C18 witness: the taskbar catalog of the annotation is empty and generate, asked for
\* no taskbar icons, placed the fallback catalog's required icon on the taskbar
C18_Witness ==
    /\ pc = "generated"
    /\ TaskbarCatalogEmpty(cfg)
    /\ get_taskbar_element(cfg) # None
    /\ state.desktop_icons = <<>>
    /\ Len(state.taskbar_icons) = 1
    /\ state.taskbar_icons[1].icon_id = "od"

\* C19: once generate has returned a DesktopState, no step of any entry point (the
\* caller's own code before render, render, to_ground_truth, the emission) changes a
\* field of it.
C19_StateReadOnly ==
    [][pc = "generated" => state' = state]_vars
WorkflowFunctions == {"render_desktop_click_od", "render_desktop_click_taskbar_od"}
\* C19 (amended): after generate has returned a DesktopState, render, to_ground_truth
\* and the emission change no field of it; the one change a caller makes between
\* creation and rendering is the workflow functions' datetime_text override, which
\* replaces the clock text and leaves every other field as generated.
C19_OnlyDatetimeOverridden ==
    [][pc = "generated" =>
          \/ state' = state
          \/ /\ entry' \in WorkflowFunctions
             /\ state'.datetime_text \in DatetimeTextArgs \ {NoText}
             /\ state' = [state EXCEPT !.datetime_text = state'.datetime_text]]_vars
\* C19 witness: render_desktop_click_od was given a datetime_text, assigned it to the
\* generated state and rendered the state so changed
C19_Witness ==
    /\ pc = "done"
    /\ entry = "render_desktop_click_od"
    /\ raised = ""
    /\ state.datetime_text \notin {_generate_datetime(d) : d \in DatetimeDraws}
    /\ metadata.ground_truth.datetime.text = state.datetime_text

\* the j-th placed icon lies within a cell width and a cell height of an earlier one
OverlapsEarlier(j) ==
    \E i \in 1..(j - 1) :
        /\ Abs(placing.used_positions[j][1] - placing.used_positions[i][1])
              < DESKTOP_CELL_WIDTH(cfg)
        /\ Abs(placing.used_positions[j][2] - placing.used_positions[i][2])
              < DESKTOP_CELL_HEIGHT(cfg)
\* C20: in the random strategy an icon consumes at most 50 position draws and is then
\* placed at the position drawn last; that position overlaps an earlier-placed icon
\* only if all 50 attempts overlapped and it is the 50th; the loop returns with one
\* placement per icon, so generate terminates.
C20_Placed ==
    /\ placing.attempts \in 0..MAX_ATTEMPTS
    /\ placing.last # NoAccept =>
          /\ placing.last.n \in 1..MAX_ATTEMPTS
          /\ placing.last.pos = placing.used_positions[Len(placing.used_positions)]
          /\ OverlapsEarlier(Len(placing.used_positions)) =>
                placing.last.n = MAX_ATTEMPTS /\ placing.last.hits = MAX_ATTEMPTS
    /\ placing.phase = "returned" =>
          /\ Len(placing.placements) = Len(placing.icon_ids)
          /\ \A i \in DOMAIN placing.placements :
                /\ placing.placements[i].icon_id = placing.icon_ids[i]
                /\ <<placing.placements[i].x, placing.placements[i].y>>
                      = placing.used_positions[i]
C20_RandomTerminates ==
    []C20_Placed /\ (placing.phase = "loop" ~> placing.phase = "returned")
\* C20 witness: an icon was accepted at its 50th draw on a position that overlaps an
\* earlier icon
C20_Witness ==
    /\ placing.last.n = MAX_ATTEMPTS
    /\ OverlapsEarlier(Len(placing.used_positions))
\* C20 witness: the loop returned with an icon that was placed over an earlier one
C20_WitnessReturned ==
    /\ placing.phase = "returned"
    /\ \E j \in DOMAIN placing.used_positions : OverlapsEarlier(j)

\* the catalog and the varyN setting the placement call of placement_call read
CallCatalog ==
    IF placement_call.region = "desktop" THEN get_desktop_icons(cfg)
    ELSE get_taskbar_icons(cfg)
CallVaryN ==
    LET element == IF placement_call.region = "desktop" THEN get_desktop_element(cfg)
                   ELSE get_taskbar_element(cfg)
    IN IF element # None THEN element.vary_n ELSE TRUE
\* tenths of the optional ids that are the least a vary-subset selection takes
CallMinTenths == IF placement_call.region = "desktop" THEN 6 ELSE 4
\* the positions of the selected list that hold an optional id
OptionalPicks ==
    {i \in DOMAIN placement_call.icon_ids :
        placement_call.icon_ids[i] \in Range(OptionalIds(CallCatalog))}
\* C21: with vary-subset mode on, the selected ids are every required id plus k
\* distinct optional ids, floor(0.6 * |optional|) <= k <= |optional| on the desktop
\* and floor(0.4 * |optional|) <= k <= |optional| on the taskbar; no id is selected
\* twice and none is outside the catalog.
C21_VarySubsetSelection ==
    (placement_call.region # "" /\ CallVaryN) =>
       LET ids == placement_call.icon_ids
           required == RequiredIds(CallCatalog)
           optional == OptionalIds(CallCatalog)
           k == Cardinality(OptionalPicks)
       IN /\ \A r \in Range(required) : \E i \in DOMAIN ids : ids[i] = r
          /\ \A i, j \in DOMAIN ids : i # j => ids[i] # ids[j]
          /\ \A i \in DOMAIN ids : ids[i] \in Range(required) \cup Range(optional)
          /\ Len(ids) = Len(required) + k
          /\ (CallMinTenths * Len(optional)) \div 10 <= k
          /\ k <= Len(optional)
\* C21 witness: a desktop vary-subset selection that left an optional id out
C21_Witness ==
    /\ placement_call.region = "desktop"
    /\ CallVaryN
    /\ Len(RequiredIds(CallCatalog)) >= 1
    /\ Cardinality(OptionalPicks) >= 1
    /\ Cardinality(OptionalPicks) < Len(OptionalIds(CallCatalog))
\* C21 witness: a taskbar vary-subset selection that left an optional id out
C21_WitnessTaskbar ==
    /\ placement_call.region = "taskbar"
    /\ CallVaryN
    /\ Cardinality(OptionalPicks) < Len(OptionalIds(CallCatalog))

\* the place of a layer in the stated painting order
LayerRank(layer) ==
    CASE layer = "base" -> 1
      [] layer = "desktop_icon" -> 2
      [] layer = "taskbar_icon" -> 3
      [] layer = "datetime" -> 4
      [] layer = "loading_panel" -> 5
\* C22: render paints the base background, then the desktop icons, then the taskbar
\* icons, then the clock text, then the loading panel; the loading panel comes after
\* every other layer and is painted if and only if the state's loading flag is true.
C22_DrawingOrder ==
    (pc = "done" /\ img # NoImage) =>
       /\ img.layers[1] = "base"
       /\ \A i, j \in DOMAIN img.layers :
             i < j => LayerRank(img.layers[i]) <= LayerRank(img.layers[j])
       /\ (\E i \in DOMAIN img.layers : img.layers[i] = "loading_panel")
             <=> state.od_loading_visible
\* C22 witness: a state with the loading flag set was rendered by a renderer that has
\* no loading panel bitmap
C22_Witness ==
    /\ pc = "done"
    /\ state.od_loading_visible
    /\ ~_loading_panel(cfg)
    /\ img.layers[Len(img.layers)] = "datetime"
\* C22 witness: the panel was painted last, over icons and the clock
C22_WitnessPainted ==
    /\ pc = "done"
    /\ Len(img.layers) >= 4
    /\ img.layers[Len(img.layers)] = "loading_panel"

\* the alias keys of icon_id that have a bitmap
AliasKeys(prefix, icon_id) ==
    {<<prefix, al[2]>> : al \in {a \in _ICON_ALIASES : a[1] = icon_id}} \cap cfg.cache
\* what was pasted for the placements of one region agrees with the resolution rule
ResolvedAsStated(prefix, icons, pasted) ==
    /\ \A i \in DOMAIN icons :
          LET direct == <<prefix, icons[i].icon_id>>
              drawn == {j \in DOMAIN pasted : pasted[j].icon_id = icons[i].icon_id}
          IN /\ direct \in cfg.cache =>
                   \E j \in drawn : pasted[j].key = direct
                                       /\ pasted[j].at = <<icons[i].x, icons[i].y>>
             /\ (direct \notin cfg.cache /\ AliasKeys(prefix, icons[i].icon_id) # {}) =>
                   \E j \in drawn : pasted[j].key \in AliasKeys(prefix, icons[i].icon_id)
                                       /\ pasted[j].at = <<icons[i].x, icons[i].y>>
             /\ (direct \notin cfg.cache /\ AliasKeys(prefix, icons[i].icon_id) = {}) =>
                   drawn = {}
    /\ Len(pasted) =
          Cardinality({i \in DOMAIN icons :
                         \/ <<prefix, icons[i].icon_id>> \in cfg.cache
                         \/ AliasKeys(prefix, icons[i].icon_id) # {}})
\* C23: the direct key of (region, icon_id) wins whenever it has a bitmap; the alias
\* table is used only when the direct key has none; an icon neither resolves is
\* skipped without an error, and the icons after it, the clock and the overlay are
\* still drawn.
C23_IconKeyResolution ==
    (pc = "done" /\ img # NoImage) =>
       /\ ResolvedAsStated("desktop", state.desktop_icons, img.desktop)
       /\ ResolvedAsStated("taskbar", state.taskbar_icons, img.taskbar)
       /\ \E i \in DOMAIN img.layers : img.layers[i] = "datetime"
       /\ (state.od_loading_visible /\ _loading_panel(cfg)) =>
             img.layers[Len(img.layers)] = "loading_panel"
\* C23 witness: one scene with an icon pasted under its direct key although its alias
\* has a bitmap too, an icon pasted under its alias, and an icon skipped before them
\* or after them
C23_Witness ==
    /\ pc = "done"
    /\ img # NoImage
    /\ \E i \in DOMAIN img.desktop :
          /\ img.desktop[i].key = <<"desktop", img.desktop[i].icon_id>>
          /\ AliasKeys("desktop", img.desktop[i].icon_id) # {}
    /\ \E i \in DOMAIN img.desktop :
          img.desktop[i].key # <<"desktop", img.desktop[i].icon_id>>
    /\ Len(img.desktop) < Len(state.desktop_icons)

\* the prompts IconListTask.generate_samples emits on the current state for icon_id
ClickPromptsFor(icon_id) ==
    LET out == IconListTask_generate_samples(cfg, state)
    IN {out[i].prompt : i \in {j \in DOMAIN out : out[j].icon_id = icon_id}}
\* C24: for a loading-visible state WaitLoadingTask.generate_samples emits exactly one
\* wait sample per desktop icon of the state, in the icons' order, and the prompt of
\* each is a prompt IconListTask emits for the same icon on the same state: the click
\* template with [icon_label] replaced by the icon's label.
C24_WaitPromptsAreClickPrompts ==
    (pc = "done" /\ entry = "WaitLoadingTask.generate_samples" /\ img # NoImage) =>
       /\ state.od_loading_visible
       /\ Len(samples) = Len(state.desktop_icons)
       /\ \A i \in DOMAIN samples :
             /\ samples[i].action = "wait"
             /\ samples[i].icon_id = state.desktop_icons[i].icon_id
             /\ samples[i].prompt \in ClickPromptsFor(samples[i].icon_id)
             /\ \E t \in DOMAIN cfg.tasks :
                   /\ cfg.tasks[t].action = "double_click"
                   /\ samples[i].prompt =
                        Replace(cfg.tasks[t].prompt_template,
                                LabelOf(get_desktop_icons(cfg), samples[i].icon_id))
\* C24 witness: wait samples for several icons under an annotation whose click task has
\* two templates for the desktop
C24_Witness ==
    /\ pc = "done"
    /\ entry = "WaitLoadingTask.generate_samples"
    /\ Len(samples) >= 2
    /\ Cardinality(ClickPromptsFor(samples[1].icon_id)) >= 2

\* the clock region supplied by the annotation, None when there is none
ClockRegion ==
    IF cfg.ann THEN get_element_by_label(cfg, "datetime") ELSE None
C25_WitnessFallback ==
    /\ pc = "generated"
    /\ ClockRegion = None
    /\ state.datetime_position = <<1868, 1043>>

\* C26: no two samples returned by one IconListTask.generate_samples call have the
\* same id, whatever the annotation (two or more click templates for the desktop
\* included) and the state.
C26_SampleIdsUnique ==
    (pc = "done" /\ entry = "IconListTask.generate_samples") =>
       \A i, j \in DOMAIN samples : i # j => samples[i].id # samples[j].id
\* C26 witness: one call returned two samples for the same icon, from two click
\* templates that target the desktop
C26_Witness ==
    /\ pc = "done"
    /\ entry = "IconListTask.generate_samples"
    /\ \E i, j \in DOMAIN samples :
          /\ i # j
          /\ samples[i].icon_id = samples[j].icon_id
          /\ samples[i].task_type # samples[j].task_type
          /\ samples[i].id = samples[j].id

\* C27: for every layout strategy and catalog size, _place_desktop_icons returns as
\* many placements as it selected icon ids, and every selected id has exactly one
\* placement, also when more ids are selected than the sparse grid has cells.
C27_NoSelectedIconDropped ==
    placement_call.region = "desktop" =>
       /\ Len(placement_call.placements) = Len(placement_call.icon_ids)
       /\ \A i \in DOMAIN placement_call.icon_ids :
             Occurrences(placement_call.placements, placement_call.icon_ids[i]) = 1
\* C27 witness: the sparse strategy was given more ids than its 6 x 8 cells and
\* returned one placement per cell, leaving a selected id without a placement
C27_Witness ==
    /\ placement_call.region = "desktop"
    /\ placement_call.layout_style = "sparse"
    /\ Len(placement_call.icon_ids) > sparse_cols * max_rows
    /\ Len(placement_call.placements) = sparse_cols * max_rows
    /\ \E i \in DOMAIN placement_call.icon_ids :
          Occurrences(placement_call.placements, placement_call.icon_ids[i]) = 0
\* C27: the strategies other than sparse, and sparse within its grid, keep every id
C27_WitnessKept ==
    /\ placement_call.region = "desktop"
    /\ placement_call.layout_style = "stacked"
    /\ Len(placement_call.icon_ids) > sparse_cols * max_rows
    /\ Len(placement_call.placements) = Len(placement_call.icon_ids)

\* the bounding box of placement p lies entirely inside region (x, y, width, height)
InsideRegion(p, region) ==
    /\ region[1] <= p.x
    /\ region[2] <= p.y
    /\ p.x + p.width <= region[1] + region[3]
    /\ p.y + p.height <= region[2] + region[4]
\* C28: every desktop placement's bounding box lies inside the desktop area
\* (0, 0, 1920, 1032) and every taskbar placement's inside the taskbar
\* (0, 1032, 1920, 48), for every layout strategy and number of selected icons.
C28_PlacementsInsideRegion ==
    \A i \in DOMAIN placement_call.placements :
       InsideRegion(placement_call.placements[i],
                    IF placement_call.region = "desktop" THEN desktop_area
                    ELSE taskbar_area)
\* C28 witness: _place_taskbar_icons was given more icons than fit between the left
\* margin and the right edge of the frame and placed the last one across that edge
C28_Witness ==
    /\ placement_call.region = "taskbar"
    /\ \E i \in DOMAIN placement_call.placements :
          /\ placement_call.placements[i].x + placement_call.placements[i].width > FRAME_W
          /\ placement_call.placements[i].y >= taskbar_area[2]
\* C28 witness: a desktop call of each strategy with its placements inside the area
C28_WitnessDesktop ==
    /\ placement_call.region = "desktop"
    /\ Len(placement_call.placements) > sparse_cols * max_rows
    /\ \A i \in DOMAIN placement_call.placements :
          InsideRegion(placement_call.placements[i], desktop_area)

\* C29: whenever generate_sample("wait-loading", state) returns a non-empty list, the
\* state that was rendered has od_loading_visible = true, also when the caller
\* supplied the state.
C29_WaitOnlyWhenLoadingVisible ==
    (pc = "done" /\ entry = "generate_sample.wait-loading" /\ samples # <<>>) =>
       state.od_loading_visible
\* C29 witness: the caller passed a state without the loading panel and got wait samples
\* for the scene rendered from it
C29_Witness ==
    /\ pc = "done"
    /\ entry = "generate_sample.wait-loading"
    /\ caller = "caller"
    /\ ~state.od_loading_visible
    /\ ~img.loading_panel
    /\ samples # <<>>
    /\ \A i \in DOMAIN samples : samples[i].action = "wait"
\* C29 witness: generate_sample built the state itself, with the flag set
C29_WitnessGenerated ==
    /\ pc = "done"
    /\ entry = "generate_sample.wait-loading"
    /\ caller = "generate_sample"
    /\ state.od_loading_visible
    /\ samples # <<>>

====
